---- MODULE Spec2Model ----
(***************************************************************************)
(* A model of the coding agent: the CLI read loop (cli.ts), the agent's    *)
(* turn (agent.ts: processMessage, callOpenAI, parseAndExecuteTools), the  *)
(* shell capability with its safety gate (tools/commandTools.ts) and the   *)
(* file and mailbox capabilities (tools/fileTools.ts, tools/gmailTools.ts).*)
(*                                                                         *)
(* Strings are sequences whose elements are single characters.  A fixed    *)
(* string of the program that is only ever compared or concatenated (an    *)
(* error text, the constant part of a message template) is kept as one     *)
(* element; every string that the program scans (the model's text, a       *)
(* typed line, a command) is spelled character by character.               *)
(***************************************************************************)
EXTENDS Naturals, Integers, Sequences, FiniteSets, TLC

(***************************************************************************)
(* String primitives of the JavaScript runtime.                            *)
(***************************************************************************)
UpperCase == <<"A","B","C","D","E","F","G","H","I","J","K","L","M","N","O","P","Q","R","S","T","U","V","W","X","Y","Z">>
LowerCase == <<"a","b","c","d","e","f","g","h","i","j","k","l","m","n","o","p","q","r","s","t","u","v","w","x","y","z">>

\* \w of a regular expression
IsWordChar(c) ==
  \/ c \in {"0","1","2","3","4","5","6","7","8","9"}
  \/ c = "_"
  \/ \E k \in 1..26 : c = UpperCase[k] \/ c = LowerCase[k]

\* \s of a regular expression, and what String.prototype.trim removes
IsSpaceChar(c) == c \in {" ", "\n", "\t"}

ToLowerChar(c) ==
  IF \E k \in 1..26 : c = UpperCase[k]
  THEN LowerCase[CHOOSE k \in 1..26 : c = UpperCase[k]]
  ELSE c

\* String.prototype.toLowerCase
toLowerCase(s) == [k \in 1..Len(s) |-> ToLowerChar(s[k])]

\* String.prototype.includes
includes(s, t) ==
  \E k \in 0..(Len(s) - Len(t)) : SubSeq(s, k + 1, k + Len(t)) = t

\* String.prototype.trim
RECURSIVE TrimLeft(_)
TrimLeft(s) ==
  IF s # <<>> /\ IsSpaceChar(Head(s)) THEN TrimLeft(Tail(s)) ELSE s

RECURSIVE TrimRight(_)
TrimRight(s) ==
  IF s # <<>> /\ IsSpaceChar(s[Len(s)])
  THEN TrimRight(SubSeq(s, 1, Len(s) - 1))
  ELSE s

trim(s) == TrimRight(TrimLeft(s))

\* String.prototype.split with a one-character separator: the pieces
\* between separators, empty pieces included
RECURSIVE SplitFrom(_, _, _)
SplitFrom(s, sep, acc) ==
  IF s = <<>> THEN <<acc>>
  ELSE IF Head(s) = sep THEN <<acc>> \o SplitFrom(Tail(s), sep, <<>>)
  ELSE SplitFrom(Tail(s), sep, Append(acc, Head(s)))

split(s, sep) == SplitFrom(s, sep, <<>>)

\* Array.prototype.join with a one-character separator
RECURSIVE join(_, _)
join(parts, sep) ==
  IF parts = <<>> THEN <<>>
  ELSE IF Len(parts) = 1 THEN parts[1]
  ELSE parts[1] \o <<sep>> \o join(Tail(parts), sep)

\* Array.prototype.slice(k) for k >= 0 (zero-based start)
sliceFrom(a, k) == SubSeq(a, k + 1, Len(a))

\* Array.prototype.slice(-n): the last n elements, oldest first; the
\* array itself is left as it is
sliceLast(a, n) ==
  IF Len(a) <= n THEN a ELSE SubSeq(a, Len(a) - n + 1, Len(a))

\* Array.prototype.slice(0, n) and String.prototype.substring(0, n)
sliceTo(a, n) == IF Len(a) <= n THEN a ELSE SubSeq(a, 1, n)

\* a value that is not there (undefined)
Undefined == <<"undefined">>

(***************************************************************************)
(* commandTools.ts: the safety gate.                                       *)
(***************************************************************************)
dangerousCommands ==
  << <<"r", "m", " ", "-", "r", "f">>,
     <<"f", "o", "r", "m", "a", "t">>,
     <<"d", "d">>,
     <<"m", "k", "f", "s">>,
     <<"f", "d", "i", "s", "k">>,
     <<"s", "h", "u", "t", "d", "o", "w", "n">>,
     <<"r", "e", "b", "o", "o", "t">>,
     <<"h", "a", "l", "t">>,
     <<"p", "o", "w", "e", "r", "o", "f", "f">> >>

\* the gate without the lower-casing of the command
isSafeCommandCaseSensitive(command) ==
  ~ \E d \in 1..Len(dangerousCommands) :
      includes(command, dangerousCommands[d])

isSafeCommand(command) ==
  LET lowerCommand == toLowerCase(command)
  IN  ~ \E d \in 1..Len(dangerousCommands) :
          includes(lowerCommand, toLowerCase(dangerousCommands[d]))

(***************************************************************************)
(* agent.ts: the call extractor of parseAndExecuteTools.                   *)
(***************************************************************************)
\* the alternation of the extraction pattern, in its order
toolNames ==
  << <<"r", "e", "a", "d", "F", "i", "l", "e">>,
     <<"w", "r", "i", "t", "e", "F", "i", "l", "e">>,
     <<"e", "d", "i", "t", "F", "i", "l", "e">>,
     <<"e", "x", "e", "c", "u", "t", "e", "C", "o", "m", "m", "a", "n", "d">>,
     <<"l", "i", "s", "t", "F", "i", "l", "e", "s">>,
     <<"l", "i", "s", "t", "E", "m", "a", "i", "l", "s">>,
     <<"g", "e", "t", "E", "m", "a", "i", "l">>,
     <<"s", "e", "n", "d", "E", "m", "a", "i", "l">>,
     <<"c", "r", "e", "a", "t", "e", "D", "r", "a", "f", "t">>,
     <<"s", "e", "a", "r", "c", "h", "E", "m", "a", "i", "l", "s">>,
     <<"g", "e", "t", "U", "n", "r", "e", "a", "d", "E", "m", "a", "i", "l", "s">>,
     <<"m", "a", "r", "k", "A", "s", "R", "e", "a", "d">>,
     <<"d", "e", "l", "e", "t", "e", "E", "m", "a", "i", "l">>,
     <<"g", "e", "t", "E", "m", "a", "i", "l", "C", "o", "n", "t", "e", "x", "t">>,
     <<"a", "n", "a", "l", "y", "z", "e", "E", "m", "a", "i", "l", "T", "h", "r", "e", "a", "d">> >>

\* the first position at or after p that holds no white space
RECURSIVE SkipSpace(_, _)
SkipSpace(text, p) ==
  IF p <= Len(text) /\ IsSpaceChar(text[p]) THEN SkipSpace(text, p + 1) ELSE p

\* the first position at or after p that holds a ")", or Len(text)+1
RECURSIVE FindClose(_, _)
FindClose(text, p) ==
  IF p <= Len(text) /\ text[p] # ")" THEN FindClose(text, p + 1) ELSE p

\* \s*\([^)]+\) matched at p: the position of the closing ")", or 0
ArgListEnd(text, p) ==
  LET open == SkipSpace(text, p)
      close == FindClose(text, open + 1)
  IN  IF /\ open <= Len(text)
         /\ text[open] = "("
         /\ close <= Len(text)
         /\ close > open + 1
      THEN close
      ELSE 0

\* \b at p, before a word character
\* the pattern without its \b
AnywhereInWord(text, p) == TRUE

WordBoundaryBefore(text, p) == p = 1 \/ ~ IsWordChar(text[p - 1])

\* \b(name|...)\s*\([^)]+\) matched at p: the last position of the match, or 0
MatchAt(text, p) ==
  LET hits == { n \in 1..Len(toolNames) :
                  /\ p + Len(toolNames[n]) - 1 <= Len(text)
                  /\ SubSeq(text, p, p + Len(toolNames[n]) - 1) = toolNames[n]
                  /\ ArgListEnd(text, p + Len(toolNames[n])) # 0 }
  IN  IF WordBoundaryBefore(text, p) /\ hits # {}
      THEN LET n == CHOOSE n \in hits : \A m \in hits : n <= m
           IN  ArgListEnd(text, p + Len(toolNames[n]))
      ELSE 0

\* String.prototype.match with the g flag: every match, left to right,
\* each search starting after the previous match (no match: null, which the
\* caller treats as nothing to do)
RECURSIVE MatchAll(_, _)
MatchAll(text, p) ==
  IF p > Len(text) THEN <<>>
  ELSE LET e == MatchAt(text, p)
       IN  IF e # 0
           THEN <<SubSeq(text, p, e)>> \o MatchAll(text, e + 1)
           ELSE MatchAll(text, p + 1)

extractToolCalls(response) == MatchAll(response, 1)

\* the longest run of word characters from p: the position after it
RECURSIVE WordEnd(_, _)
WordEnd(text, p) ==
  IF p <= Len(text) /\ IsWordChar(text[p]) THEN WordEnd(text, p + 1) ELSE p

\* toolCall.match(/(\w+)\s*\(([^)]+)\)/): the first position it matches at
\* (0: no match)
RECURSIVE InnerMatchPos(_, _)
InnerMatchPos(toolCall, p) ==
  IF p > Len(toolCall) THEN 0
  ELSE IF /\ IsWordChar(toolCall[p])
          /\ ArgListEnd(toolCall, WordEnd(toolCall, p)) # 0
       THEN p
       ELSE InnerMatchPos(toolCall, p + 1)

\* the arguments with their quotes left in
removeQuotesKept(s) == s

\* replace(/['"]/g, '')
removeQuotes(s) == SelectSeq(s, LAMBDA c : c \notin {"'", "\""})

\* [funcName, args] of one matched call expression
parseToolCall(toolCall) ==
  LET p == InnerMatchPos(toolCall, 1)
      w == WordEnd(toolCall, p)
      open == SkipSpace(toolCall, w)
      close == ArgListEnd(toolCall, w)
      argsStr == SubSeq(toolCall, open + 1, close - 1)
      pieces == split(argsStr, ",")
  IN  [ funcName |-> SubSeq(toolCall, p, w - 1),
        args |-> [k \in 1..Len(pieces) |-> removeQuotes(trim(pieces[k]))] ]

\* args[k] of JavaScript (zero-based), undefined past the end
Arg(args, k) == IF k + 1 <= Len(args) THEN args[k + 1] ELSE Undefined

(***************************************************************************)
(* types.ts: ToolResult.  A field that is not set holds Undefined.         *)
(***************************************************************************)
ToolResult(success, data, error, message) ==
  [success |-> success, data |-> data, error |-> error, message |-> message]

\* data payloads, tagged with what typeof gives for them
StringData(s) == [type |-> "string", value |-> s]
ObjectData(o) == [type |-> "object", value |-> o]   \* o: a record; an array is [entries |-> ...]
NoData == [type |-> "undefined", value |-> <<>>]

\* an exception: an Error carries a message, any other thrown value does not
ErrorThrown(msg) == [isError |-> TRUE, message |-> msg]
NothingThrown == [isError |-> FALSE, message |-> <<>>]

(***************************************************************************)
(* tools/fileTools.ts over a file system: files maps the full path of      *)
(* every existing file to its content.                                     *)
(***************************************************************************)
\* process.cwd(), the directory FileTools and CommandTools start in
InitialDirectory == <<"/", "w">>

\* path.resolve(currentDirectory, filePath) for paths without . and ..
\* segments: an absolute path stands, "" and "." give the directory itself
resolve(currentDirectory, filePath) ==
  IF filePath = <<>> \/ filePath = <<".">> THEN currentDirectory
  ELSE IF Head(filePath) = "/" THEN filePath
  ELSE currentDirectory \o <<"/">> \o filePath

\* path.dirname of a full path
RECURSIVE dirname(_)
dirname(fullPath) ==
  IF fullPath = <<>> THEN <<>>
  ELSE IF fullPath[Len(fullPath)] = "/"
       THEN (IF Len(fullPath) = 1 THEN fullPath
             ELSE SubSeq(fullPath, 1, Len(fullPath) - 1))
       ELSE dirname(SubSeq(fullPath, 1, Len(fullPath) - 1))

\* the directories that exist: the initial one and those writeFile made
RECURSIVE Ancestors(_)
Ancestors(fullPath) ==
  LET d == dirname(fullPath)
  IN  IF d = fullPath \/ d = <<>> THEN {d} ELSE {d} \cup Ancestors(d)

Directories(fs) ==
  Ancestors(InitialDirectory \o <<"/">>) \cup
  UNION { Ancestors(f) : f \in DOMAIN fs }

\* the outcome of a file operation: its Result and the file system after it
FileOutcome(result, fs) == [result |-> result, files |-> fs]

readFile(fs, currentDirectory, filePath) ==
  LET fullPath == resolve(currentDirectory, filePath)
  IN  IF fullPath \notin DOMAIN fs
      THEN FileOutcome(ToolResult(FALSE, NoData,
                                  <<"File not found: ">> \o filePath,
                                  <<"File ">> \o filePath \o <<" does not exist">>), fs)
      ELSE FileOutcome(ToolResult(TRUE, StringData(fs[fullPath]), Undefined,
                                  <<"Successfully read file: ">> \o filePath), fs)

\* fs.writeFileSync rejects content that is no string before it opens the file
InvalidDataMessage == <<"The \"data\" argument must be of type string">>

writeFile(fs, currentDirectory, filePath, content) ==
  LET fullPath == resolve(currentDirectory, filePath)
  IN  IF content = Undefined \/ fullPath \in Directories(fs)
      THEN FileOutcome(ToolResult(FALSE, NoData,
                                  IF content = Undefined THEN InvalidDataMessage
                                  ELSE <<"EISDIR: illegal operation on a directory">>,
                                  <<"Failed to write file: ">> \o filePath), fs)
      ELSE FileOutcome(ToolResult(TRUE,
                                  ObjectData([path |-> filePath, size |-> Len(content)]),
                                  Undefined,
                                  <<"Successfully wrote file: ">> \o filePath),
                       [f \in DOMAIN fs \cup {fullPath} |->
                          IF f = fullPath THEN content ELSE fs[f]])

\* editFile without its test for the file: it writes
editFileCreating(fs, currentDirectory, filePath, newContent) ==
  writeFile(fs, currentDirectory, filePath, newContent)

editFile(fs, currentDirectory, filePath, newContent) ==
  LET fullPath == resolve(currentDirectory, filePath)
  IN  IF fullPath \notin DOMAIN fs
      THEN FileOutcome(ToolResult(FALSE, NoData,
                                  <<"File not found: ">> \o filePath,
                                  <<"Cannot edit non-existent file: ">> \o filePath), fs)
      ELSE IF newContent = Undefined
      THEN FileOutcome(ToolResult(FALSE, NoData, InvalidDataMessage,
                                  <<"Failed to edit file: ">> \o filePath), fs)
      ELSE FileOutcome(ToolResult(TRUE,
                                  ObjectData([path |-> filePath, size |-> Len(newContent)]),
                                  Undefined,
                                  <<"Successfully edited file: ">> \o filePath),
                       [fs EXCEPT ![fullPath] = newContent])

\* a set as a sequence, in the order the directory is read in
RECURSIVE SetToSeq(_)
SetToSeq(S) ==
  IF S = {} THEN <<>>
  ELSE LET x == CHOOSE y \in S : TRUE IN <<x>> \o SetToSeq(S \ {x})

\* the entries of a directory: name and isDirectory (size and mtime left out)
Entries(fs, dir) ==
  { [name |-> SubSeq(f, Len(dir) + 2, Len(f)), isDirectory |-> FALSE] :
      f \in { g \in DOMAIN fs : dirname(g) = dir } }
  \cup
  { [name |-> SubSeq(d, Len(dir) + 2, Len(d)), isDirectory |-> TRUE] :
      d \in { e \in Directories(fs) : e # dir /\ dirname(e) = dir } }

listFiles(fs, currentDirectory, directory) ==
  LET fullPath == resolve(currentDirectory, directory)
  IN  IF fullPath \in DOMAIN fs
      THEN FileOutcome(ToolResult(FALSE, NoData,
                                  <<"ENOTDIR: not a directory">>,
                                  <<"Failed to list files in: ">> \o directory), fs)
      ELSE IF fullPath \notin Directories(fs)
      THEN FileOutcome(ToolResult(FALSE, NoData,
                                  <<"Directory not found: ">> \o directory,
                                  <<"Directory ">> \o directory \o <<" does not exist">>), fs)
      ELSE FileOutcome(ToolResult(TRUE, ObjectData([entries |-> SetToSeq(Entries(fs, fullPath))]), Undefined,
                                  <<"Successfully listed files in: ">> \o directory), fs)

(***************************************************************************)
(* tools/commandTools.ts: executeCommand.  The subprocess is the           *)
(* environment's: it closes with an exit code, it emits an error (it could *)
(* not be started), or exec itself throws (the promise rejects).  A        *)
(* subprocess ended by a signal closes with the code null: its outcome     *)
(* names the signal, and its code field stands for nothing.                *)
(***************************************************************************)
\* the code handed to the close handler: a number, or null
ExitCodeIs(o, c) == o.signal = "none" /\ o.code = c
ExitCodeText(o) == IF o.signal = "none" THEN ToString(o.code) ELSE "null"

\* code || 0
ExitCodeOrZero(o) == IF o.signal = "none" THEN o.code ELSE 0

ExecOutcomes ==
  { [kind |-> "close", code |-> 0, signal |-> "none",
     stdout |-> <<"h", "i", "\n">>, stderr |-> <<>>],
    [kind |-> "close", code |-> 1, signal |-> "none",
     stdout |-> <<>>, stderr |-> <<>>],
    [kind |-> "close", code |-> 0, signal |-> "SIGKILL",
     stdout |-> <<>>, stderr |-> <<>>],
    [kind |-> "error", message |-> <<"spawn /bin/sh ENOENT">>],
    [kind |-> "throw", thrown |-> ErrorThrown(<<"spawn failed">>)] }

\* stderr || fallback
OrElse(s, fallback) == IF s = <<>> \/ s = Undefined THEN fallback ELSE s

\* the close handler with error: stderr || undefined in the failed Result
CommandClosedBareStderr(command, o) ==
  LET result == [command |-> command,
                 output |-> o.stdout,
                 error |-> OrElse(o.stderr, Undefined),
                 exitCode |-> ExitCodeOrZero(o)]
  IN  IF ExitCodeIs(o, 0)
      THEN ToolResult(TRUE, ObjectData(result), Undefined,
                      <<"Command executed successfully: ">> \o command)
      ELSE ToolResult(FALSE, ObjectData(result),
                      OrElse(o.stderr, Undefined),
                      <<"Command failed with exit code ", ExitCodeText(o), ": ">>
                        \o command)

\* the close handler of executeCommand
CommandClosed(command, o) ==
  LET result == [command |-> command,
                 output |-> o.stdout,
                 error |-> OrElse(o.stderr, Undefined),
                 exitCode |-> ExitCodeOrZero(o)]
  IN  IF ExitCodeIs(o, 0)
      THEN ToolResult(TRUE, ObjectData(result), Undefined,
                      <<"Command executed successfully: ">> \o command)
      ELSE ToolResult(FALSE, ObjectData(result),
                      OrElse(o.stderr, <<"Command failed">>),
                      <<"Command failed with exit code ", ExitCodeText(o), ": ">>
                        \o command)

\* the error handler of executeCommand
CommandErrored(command, o) ==
  ToolResult(FALSE, NoData, o.message,
             <<"Failed to execute command: ">> \o command)

\* what the promise of executeCommand resolves with
CommandResolved(command, o) ==
  IF o.kind = "close" THEN CommandClosed(command, o)
  ELSE CommandErrored(command, o)

(***************************************************************************)
(* tools/gmailTools.ts: every operation first makes sure of the            *)
(* authentication, then issues its remote request; both are the            *)
(* environment's to fail.                                                  *)
(***************************************************************************)
\* the operations the dispatch switch has a case for
MailboxCases ==
  { <<"l", "i", "s", "t", "E", "m", "a", "i", "l", "s">>,
    <<"g", "e", "t", "E", "m", "a", "i", "l">>,
    <<"s", "e", "a", "r", "c", "h", "E", "m", "a", "i", "l", "s">>,
    <<"g", "e", "t", "U", "n", "r", "e", "a", "d", "E", "m", "a", "i", "l", "s">>,
    <<"m", "a", "r", "k", "A", "s", "R", "e", "a", "d">>,
    <<"d", "e", "l", "e", "t", "e", "E", "m", "a", "i", "l">>,
    <<"g", "e", "t", "E", "m", "a", "i", "l", "C", "o", "n", "t", "e", "x", "t">>,
    <<"a", "n", "a", "l", "y", "z", "e", "E", "m", "a", "i", "l", "T", "h", "r", "e", "a", "d">> }

\* the mailbox call names of the extraction pattern
MailboxNames ==
  MailboxCases \cup { <<"s", "e", "n", "d", "E", "m", "a", "i", "l">>, <<"c", "r", "e", "a", "t", "e", "D", "r", "a", "f", "t">> }

\* what may happen to one mailbox operation: the handshake (when one is
\* needed) fails, the remote request fails, or both succeed
MailboxOutcomes(authenticated) ==
  (IF authenticated THEN {} ELSE {"authFails"}) \cup {"requestFails", "ok"}

\* every operation performing the handshake again
MailboxStepsRehandshake(authenticated, outcome) ==
  IF outcome = "authFails" THEN <<"handshakeFailed">>
  ELSE <<"handshake", "request">>

\* what one operation does at the mailbox: ensureAuthenticated returns at
\* once when isAuthenticated is set and performs the handshake otherwise;
\* the operation returns the failed Result of the handshake, or goes on to
\* its remote request (a listing and the messages it fetches count as one)
MailboxSteps(authenticated, outcome) ==
  IF authenticated THEN <<"request">>
  ELSE IF outcome = "authFails" THEN <<"handshakeFailed">>
  ELSE <<"handshake", "request">>

\* searchEmails and getUnreadEmails are listEmails with a query;
\* getEmailContext is getEmail with a summary made of its data; id is the
\* message or thread, and for sendEmail and createDraft the subject
MailboxFailureMessage(funcName, id) ==
  IF funcName \in { <<"l", "i", "s", "t", "E", "m", "a", "i", "l", "s">>, <<"s", "e", "a", "r", "c", "h", "E", "m", "a", "i", "l", "s">>, <<"g", "e", "t", "U", "n", "r", "e", "a", "d", "E", "m", "a", "i", "l", "s">> }
  THEN <<"Failed to list emails">>
  ELSE IF funcName \in { <<"g", "e", "t", "E", "m", "a", "i", "l">>, <<"g", "e", "t", "E", "m", "a", "i", "l", "C", "o", "n", "t", "e", "x", "t">> }
  THEN <<"Failed to get email: ">> \o id
  ELSE IF funcName = <<"m", "a", "r", "k", "A", "s", "R", "e", "a", "d">>
  THEN <<"Failed to mark email as read: ">> \o id
  ELSE IF funcName = <<"d", "e", "l", "e", "t", "e", "E", "m", "a", "i", "l">>
  THEN <<"Failed to delete email: ">> \o id
  ELSE IF funcName = <<"s", "e", "n", "d", "E", "m", "a", "i", "l">>
  THEN <<"Failed to send email">>
  ELSE IF funcName = <<"c", "r", "e", "a", "t", "e", "D", "r", "a", "f", "t">>
  THEN <<"Failed to create draft">>
  ELSE <<"Failed to analyze email thread">>

MailboxSuccessMessage(funcName, id) ==
  IF funcName \in { <<"l", "i", "s", "t", "E", "m", "a", "i", "l", "s">>, <<"s", "e", "a", "r", "c", "h", "E", "m", "a", "i", "l", "s">>, <<"g", "e", "t", "U", "n", "r", "e", "a", "d", "E", "m", "a", "i", "l", "s">> }
  THEN <<"Successfully retrieved ", "(count)", " emails">>
  ELSE IF funcName = <<"g", "e", "t", "E", "m", "a", "i", "l">>
  THEN <<"Successfully retrieved email: ", "(subject)">>
  ELSE IF funcName = <<"g", "e", "t", "E", "m", "a", "i", "l", "C", "o", "n", "t", "e", "x", "t">>
  THEN <<"Email context retrieved for: ", "(subject)">>
  ELSE IF funcName = <<"m", "a", "r", "k", "A", "s", "R", "e", "a", "d">>
  THEN <<"Successfully marked email as read: ">> \o id
  ELSE IF funcName = <<"d", "e", "l", "e", "t", "e", "E", "m", "a", "i", "l">>
  THEN <<"Successfully deleted email: ">> \o id
  ELSE IF funcName = <<"s", "e", "n", "d", "E", "m", "a", "i", "l">>
  THEN <<"Successfully sent email: ">> \o id
  ELSE IF funcName = <<"c", "r", "e", "a", "t", "e", "D", "r", "a", "f", "t">>
  THEN <<"Successfully created draft: ">> \o id
  ELSE <<"Thread analysis completed for thread: ">> \o id

\* markAsRead and deleteEmail return no data
MailboxData(funcName) ==
  IF funcName \in { <<"m", "a", "r", "k", "A", "s", "R", "e", "a", "d">>, <<"d", "e", "l", "e", "t", "e", "E", "m", "a", "i", "l">> }
  THEN NoData
  ELSE ObjectData([remote |-> <<"(remote data)">>])

\* the Result of the operation funcName(id) under an outcome
MailboxResult(funcName, id, outcome) ==
  IF outcome = "authFails"
  THEN ToolResult(FALSE, NoData, <<"(authentication error)">>,
                  <<"Failed to authenticate with Gmail API">>)
  ELSE IF outcome = "requestFails"
  THEN ToolResult(FALSE, NoData, <<"(request error)">>,
                  MailboxFailureMessage(funcName, id))
  ELSE ToolResult(TRUE, MailboxData(funcName), Undefined,
                  MailboxSuccessMessage(funcName, id))

(***************************************************************************)
(* agent.ts: the dispatch switch of parseAndExecuteTools.                  *)
(***************************************************************************)
BlockedResult(command) ==
  ToolResult(FALSE, NoData, <<"Command blocked for safety">>,
             <<"Command blocked: ">> \o command)

GmailUnavailable ==
  ToolResult(FALSE, NoData, <<"Gmail tools not available">>,
             <<"Gmail functionality not configured">>)

UnknownTool(funcName) ==
  ToolResult(FALSE, NoData, <<"Unknown tool">>,
             <<"Unknown tool: ">> \o funcName)

\* the catch clause without the message of the Error
CaughtResultUnknown(thrown, toolCall) ==
  ToolResult(FALSE, NoData, <<"Unknown error">>,
             <<"Failed to execute tool: ">> \o toolCall)

\* the catch clause around one call
CaughtResult(thrown, toolCall) ==
  ToolResult(FALSE, NoData,
             IF thrown.isError THEN thrown.message ELSE <<"Unknown error">>,
             <<"Failed to execute tool: ">> \o toolCall)

FileCases ==
  { <<"r", "e", "a", "d", "F", "i", "l", "e">>, <<"w", "r", "i", "t", "e", "F", "i", "l", "e">>, <<"e", "d", "i", "t", "F", "i", "l", "e">>, <<"l", "i", "s", "t", "F", "i", "l", "e", "s">> }

\* the case the switch takes for funcName, and what that case does first
SwitchCase(funcName, args, gmail) ==
  IF funcName \in FileCases THEN "file"
  ELSE IF funcName = <<"e", "x", "e", "c", "u", "t", "e", "C", "o", "m", "m", "a", "n", "d">>
  THEN (IF isSafeCommand(Arg(args, 0)) THEN "process" ELSE "blocked")
  ELSE IF funcName \in MailboxCases
  THEN (IF gmail THEN "mailbox" ELSE "unavailable")
  ELSE "default"

\* the file operation of a file case, applied to the file system
FileCase(fs, currentDirectory, funcName, args) ==
  IF funcName = <<"r", "e", "a", "d", "F", "i", "l", "e">> THEN readFile(fs, currentDirectory, Arg(args, 0))
  ELSE IF funcName = <<"w", "r", "i", "t", "e", "F", "i", "l", "e">> THEN writeFile(fs, currentDirectory, Arg(args, 0), Arg(args, 1))
  ELSE IF funcName = <<"e", "d", "i", "t", "F", "i", "l", "e">> THEN editFile(fs, currentDirectory, Arg(args, 0), Arg(args, 1))
  ELSE listFiles(fs, currentDirectory, OrElse(Arg(args, 0), <<".">>))

\* the result of a case that awaits nothing
ImmediateResult(funcName, args, gmail) ==
  LET c == SwitchCase(funcName, args, gmail)
  IN  IF c = "blocked" THEN BlockedResult(Arg(args, 0))
      ELSE IF c = "unavailable" THEN GmailUnavailable
      ELSE UnknownTool(funcName)

(***************************************************************************)
(* agent.ts: processMessage.                                               *)
(***************************************************************************)
WindowSize == 10
PreviewLimit == 200
ListingLimit == 10

AgentMessage(role, content) == [role |-> role, content |-> content]

\* generateSystemPrompt: the fixed text, the directory, the listing of the
\* directory and, with a mailbox configured, the mailbox tools
RECURSIVE FileList(_)
FileList(entries) ==
  IF entries = <<>> THEN <<>>
  ELSE <<IF Head(entries).isDirectory THEN "[DIR] " ELSE "[FILE] ">>
       \o Head(entries).name
       \o (IF Len(entries) > 1 THEN <<"\n">> ELSE <<>>)
       \o FileList(Tail(entries))

generateSystemPrompt(fs, currentDirectory, gmail) ==
  LET files == listFiles(fs, currentDirectory, <<".">>).result
  IN  <<"You are a helpful coding assistant. Current directory: ">>
      \o currentDirectory
      \o <<"Recent files: ">>
      \o (IF files.success
          THEN FileList(sliceTo(files.data.value.entries, ListingLimit)) ELSE <<>>)
      \o <<"Available tools: readFile writeFile editFile executeCommand listFiles">>
      \o (IF gmail THEN <<"Email capabilities (Gmail API)">> ELSE <<>>)

\* the prompt built from the whole history, without the window
PromptMessagesWhole(history, systemPrompt) ==
  <<AgentMessage("system", systemPrompt)>> \o history

\* the messages handed to the model
PromptMessages(history, systemPrompt) ==
  <<AgentMessage("system", systemPrompt)>> \o sliceLast(history, WindowSize)

ApologyText == <<"S", "o", "r", "r", "y", ",", " ", "I", " ", "e", "n", "c", "o", "u", "n", "t", "e", "r", "e", "d", " ", "a", "n", " ", "e", "r", "r", "o", "r", " ", "w", "h", "i", "l", "e", " ", "p", "r", "o", "c", "e", "s", "s", "i", "n", "g", " ", "y", "o", "u", "r", " ", "r", "e", "q", "u", "e", "s", "t", ".">>
NoResponseText == <<"N", "o", " ", "r", "e", "s", "p", "o", "n", "s", "e", " ", "f", "r", "o", "m", " ", "A", "I">>

\* one entry of the Tool Results block
RECURSIVE FormatResults(_, _)
FormatResults(results, k) ==
  IF k > Len(results) THEN <<>>
  ELSE LET r == results[k]
       IN  <<ToString(k), ". ">> \o r.message \o <<"\n">>
           \o (IF r.error # Undefined /\ r.error # <<>>
               THEN <<"   Error: ">> \o r.error \o <<"\n">> ELSE <<>>)
           \o (IF r.data.type = "string" /\ r.data.value # <<>>
               THEN <<"   Data: ">> \o sliceTo(r.data.value, PreviewLimit)
                    \o (IF Len(r.data.value) > PreviewLimit THEN <<"...">> ELSE <<>>)
                    \o <<"\n">>
               ELSE <<>>)
           \o FormatResults(results, k + 1)

finalResponse(aiResponse, toolResults) ==
  IF Len(toolResults) > 0
  THEN aiResponse \o <<"\n\nTool Results:\n">> \o FormatResults(toolResults, 1)
  ELSE aiResponse

(***************************************************************************)
(* The inputs: the lines typed at the prompt and the texts the model       *)
(* returns.                                                                *)
(***************************************************************************)
MaxInputs == 2

UserInputs ==
  { <<"h", "i">>,
    <<" ", " ">>,
    <<"C", "l", "e", "a", "r", " ">>,
    <<"c", "o", "n", "t", "e", "x", "t">>,
    <<"q", "u", "i", "t">> }

ModelTexts ==
  { <<"o", "k">>,
    <<"I", " ", "w", "i", "l", "l", " ", "r", "e", "a", "d", "F", "i", "l", "e", "(", "b", ")", " ", "n", "o", "w">>,
    <<"w", "r", "i", "t", "e", "F", "i", "l", "e", "(", "b", ",", " ", "'", "h", "i", "'", ")", " ", "t", "h", "e", "n", " ", "r", "e", "a", "d", "F", "i", "l", "e", "(", " ", "\"", "b", "\"", " ", ")">> }

\* a long conversation: plain lines, plain answers
MaxLongInputs == 7

\* what the user and the model draw from, by the kind of session explored
\* texts of the model around two calls, readFile(a.txt) and then
\* writeFile(b.txt, hi), written with and without quotes and white space
TwoCallTexts ==
  LET ReadCalls ==
        { <<"r", "e", "a", "d", "F", "i", "l", "e", "(", "a", ".", "t", "x", "t", ")">>,
          <<"r", "e", "a", "d", "F", "i", "l", "e", "(", "\"", "a", ".", "t", "x", "t", "\"", ")">>,
          <<"r", "e", "a", "d", "F", "i", "l", "e", "(", " ", "'", "a", ".", "t", "x", "t", "'", " ", ")">>,
          <<"r", "e", "a", "d", "F", "i", "l", "e", "	", "(", "a", ".", "t", "x", "t", ")">> }
      WriteCalls ==
        { <<"w", "r", "i", "t", "e", "F", "i", "l", "e", "(", "b", ".", "t", "x", "t", ",", " ", "h", "i", ")">>,
          <<"w", "r", "i", "t", "e", "F", "i", "l", "e", "(", "\"", "b", ".", "t", "x", "t", "\"", ",", "\"", "h", "i", "\"", ")">>,
          <<"w", "r", "i", "t", "e", "F", "i", "l", "e", " ", "(", " ", "b", ".", "t", "x", "t", " ", ",", " ", " ", "'", "h", "i", "'", " ", ")">>,
          <<"w", "r", "i", "t", "e", "F", "i", "l", "e", "(", "b", ".", "t", "x", "t", ",", "h", "i", ")">> }
      ProseBefore == { <<>>, <<"I", " ", "u", "s", "e", " ", "r", "e", "a", "d", "F", "i", "l", "e", ":", " ">>, <<"(", "1", ")", " ">> }
      ProseBetween == { <<>>, <<" ", "t", "h", "e", "n", ",", " ", "w", "i", "t", "h", " ", "w", "r", "i", "t", "e", "F", "i", "l", "e", ",", " ">>, <<";", "\n", "f", "o", "o", "(", "x", ")", " ">> }
      ProseAfter == { <<>>, <<" ", "(", "d", "o", "n", "e", ")", ".">> }
  IN  { b \o r \o m \o w \o a :
          b \in ProseBefore, r \in ReadCalls, m \in ProseBetween,
          w \in WriteCalls, a \in ProseAfter }

\* texts of the model with no call expression: a name of the pattern with
\* no parentheses, with empty or unclosed ones, in another case or inside a
\* longer name, and a name the pattern does not have
NoCallTexts ==
  { <<"r", "e", "a", "d", "F", "i", "l", "e">>,
    <<"I", " ", "w", "o", "u", "l", "d", " ", "u", "s", "e", " ", "r", "e", "a", "d", "F", "i", "l", "e", " ", "o", "n", " ", "a", ".", "t", "x", "t", " ", "(", "a", "n", "d", " ", "w", "r", "i", "t", "e", "F", "i", "l", "e", " ", "l", "a", "t", "e", "r", ")", ".">>,
    <<"f", "o", "o", "(", "x", ")">>,
    <<"x", "r", "e", "a", "d", "F", "i", "l", "e", "(", "a", ".", "t", "x", "t", ")">>,
    <<"r", "e", "a", "d", "_", "F", "i", "l", "e", "(", "a", ".", "t", "x", "t", ")">>,
    <<"r", "e", "a", "d", "F", "i", "l", "e", "2", "(", "a", ".", "t", "x", "t", ")">>,
    <<"R", "e", "a", "d", "F", "i", "l", "e", "(", "a", ".", "t", "x", "t", ")">>,
    <<"r", "e", "a", "d", "F", "i", "l", "e", "(", ")">>,
    <<"r", "e", "a", "d", "F", "i", "l", "e", "(", "a", ".", "t", "x", "t">>,
    <<"r", "e", "a", "d", "F", "i", "l", "e", " ", "a", ".", "t", "x", "t", ")">>,
    <<"e", "d", "i", "t", "F", "i", "l", "e", "(", "m", "i", "s", "s", "i", "n", "g", ".", "t", "x", "t">> }

\* texts of the model with a call on a file that does not exist
MissingFileTexts ==
  { <<"r", "e", "a", "d", "F", "i", "l", "e", "(", "m", "i", "s", "s", "i", "n", "g", ".", "t", "x", "t", ")">>,
    <<"e", "d", "i", "t", "F", "i", "l", "e", "(", "m", "i", "s", "s", "i", "n", "g", ".", "t", "x", "t", ",", " ", "h", "i", ")">>,
    <<"e", "d", "i", "t", "F", "i", "l", "e", "(", "m", "i", "s", "s", "i", "n", "g", ".", "t", "x", "t", ",", " ", "h", "i", ")", " ", "r", "e", "a", "d", "F", "i", "l", "e", "(", "m", "i", "s", "s", "i", "n", "g", ".", "t", "x", "t", ")">> }

\* a session of built-in verbs
VerbInputs ==
  { <<"h", "e", "l", "p">>,
    <<"c", "d">>,
    <<"c", "d", " ", "s", "u", "b">>,
    <<"l", "s">>,
    <<"r", "e", "a", "d">>,
    <<"R", "e", "a", "d", " ", "b">>,
    <<"r", "e", "a", "d", " ", "m", "i", "s", "s", "i", "n", "g", ".", "t", "x", "t">>,
    <<"w", "r", "i", "t", "e", " ", "b">>,
    <<"w", "r", "i", "t", "e", " ", "b", " ", "h", "i", " ", "t", "h", "e", "r", "e">>,
    <<"r", "u", "n">>,
    <<"s", "e", "n", "d", " ", "a", " ", "b">>,
    <<"r", "e", "a", "d", "e", "r", " ", "b">>,
    <<" ", "p", "l", "e", "a", "s", "e", " ", "r", "u", "n", " ", "l", "s", " ">> }

\* the files a session starts with: for the previews one of no character,
\* one of as many characters as a preview holds, and one of one more
InitialFiles(s) ==
  IF s = "preview"
  THEN LET e == resolve(InitialDirectory, <<"e">>)
           f == resolve(InitialDirectory, <<"f">>)
           g == resolve(InitialDirectory, <<"g">>)
       IN  [ p \in {e, f, g} |->
               IF p = e THEN <<>>
               ELSE [i \in 1..(IF p = f THEN PreviewLimit ELSE PreviewLimit + 1) |-> "x"] ]
  ELSE << >>

\* texts of the model that read these files
PreviewTexts ==
  { <<"r", "e", "a", "d", "F", "i", "l", "e", "(", "e", ")", " ", "r", "e", "a", "d", "F", "i", "l", "e", "(", "m", "i", "s", "s", "i", "n", "g", ".", "t", "x", "t", ")">>,
    <<"r", "e", "a", "d", "F", "i", "l", "e", "(", "f", ")">>,
    <<"e", "x", "e", "c", "u", "t", "e", "C", "o", "m", "m", "a", "n", "d", "(", "e", "c", "h", "o", " ", "h", "i", ")", " ", "r", "e", "a", "d", "F", "i", "l", "e", "(", "g", ")">>,
    <<"w", "r", "i", "t", "e", "F", "i", "l", "e", "(", "n", ",", " ", "'", "'", ")", " ", "r", "e", "a", "d", "F", "i", "l", "e", "(", "n", ")">> }

Sessions ==
  { "mixed", "commands", "processes", "run", "mail", "verbs", "mailverbs", "long", "caller", "extract", "preview", "timeout" }

Typed(s) ==
  IF s = "mixed" THEN UserInputs
  ELSE IF s = "commands"
  THEN { <<"h", "i">>, <<"r", "u", "n", " ", "R", "M", " ", "-", "r", "f", " ", "a">> }
  ELSE IF s = "processes"
  THEN { <<"h", "i">> }
  ELSE IF s = "run"
  THEN { <<"r", "u", "n", " ", "e", "c", "h", "o", " ", "h", "i">> }
  ELSE IF s = "mailverbs"
  THEN { <<"e", "m", "a", "i", "l", "s">>, <<"s", "e", "a", "r", "c", "h">>, <<"e", "m", "a", "i", "l", " ", "q">>, <<"s", "e", "n", "d", " ", "a", " ", "b", " ", "c">>,
         <<"d", "r", "a", "f", "t", " ", "a", " ", "b", " ", "c">>, <<"r", "e", "a", "d", "-", "e", "m", "a", "i", "l", " ", "q">>, <<"a", "n", "a", "l", "y", "z", "e", " ", "q">>,
         <<"h", "e", "l", "p", " ", "m", "e">> }
  ELSE IF s \in {"mail", "caller", "extract"} THEN { <<"h", "i">> }
  ELSE IF s = "preview"
  THEN { <<"h", "i">>, <<"r", "e", "a", "d", " ", "e">>, <<"r", "e", "a", "d", " ", "f">>, <<"r", "e", "a", "d", " ", "m", "i", "s", "s", "i", "n", "g", ".", "t", "x", "t">> }
  ELSE IF s = "verbs" THEN VerbInputs
  ELSE IF s = "timeout" THEN {}
  ELSE { <<"h", "i">>, <<"y", "o">> }

Answered(s) ==
  IF s = "mixed" THEN ModelTexts
  ELSE IF s = "commands"
  THEN { <<"e", "x", "e", "c", "u", "t", "e", "C", "o", "m", "m", "a", "n", "d", "(", "R", "'", "M", " ", "-", "r", "f", " ", "a", ")", " ", "e", "x", "e", "c", "u", "t", "e", "C", "o", "m", "m", "a", "n", "d", "(", "e", "c", "h", "o", " ", "h", "i", ")">> }
  ELSE IF s = "processes"
  THEN { <<"e", "x", "e", "c", "u", "t", "e", "C", "o", "m", "m", "a", "n", "d", "(", "e", "c", "h", "o", " ", "h", "i", ")">> }
  ELSE IF s = "mail"
  THEN { n \o <<"(", "q", ")">> : n \in MailboxNames }
         \cup { <<"g", "e", "t", "E", "m", "a", "i", "l", "(", "q", ")", ",", " ", "t", "h", "e", "n", " ", "m", "a", "r", "k", "A", "s", "R", "e", "a", "d", "(", "q", ")", " ", "a", "n", "d", " ", "d", "e", "l", "e", "t", "e", "E", "m", "a", "i", "l", "(", "q", ")">>,
                <<"e", "x", "e", "c", "u", "t", "e", "C", "o", "m", "m", "a", "n", "d", "(", "e", "c", "h", "o", " ", "h", "i", ")", " ", "a", "n", "d", " ", "s", "e", "n", "d", "E", "m", "a", "i", "l", "(", "d", ")">>,
                <<"l", "i", "s", "t", "E", "m", "a", "i", "l", "s", "(", ")">>,
                <<"g", "e", "t", "U", "n", "r", "e", "a", "d", "E", "m", "a", "i", "l", "s", "(", ")">>,
                <<"I", " ", "c", "a", "l", "l", " ", "g", "e", "t", "U", "n", "r", "e", "a", "d", "E", "m", "a", "i", "l", "s", "(", ")", " ", "a", "n", "d", " ", "g", "e", "t", "E", "m", "a", "i", "l", "(", "m", "e", "s", "s", "a", "g", "e", "I", "d", ")">> }
  ELSE IF s = "extract"
  THEN TwoCallTexts \cup NoCallTexts \cup MissingFileTexts
         \cup { <<"w", "r", "i", "t", "e", "F", "i", "l", "e", "(", "b", ",", " ", "d", "o", "n", "'", "t", ")">>, <<"w", "r", "i", "t", "e", "F", "i", "l", "e", "(", "\"", "n", ".", "t", "x", "t", "\"", ",", " ", "'", "i", "t", "'", "s", "'", ")">> }
  ELSE IF s = "verbs" THEN { <<"o", "k">>, <<"e", "d", "i", "t", "F", "i", "l", "e", "(", "c", ",", " ", "h", "i", ")", " ", "r", "e", "a", "d", "F", "i", "l", "e", "(", "b", ")">> }
  ELSE IF s = "preview" THEN PreviewTexts
  ELSE { <<"o", "k">> }

LineLimit(s) ==
  IF s = "long" THEN MaxLongInputs
  ELSE IF s \in {"mail", "extract", "preview"} THEN 1
  ELSE MaxInputs

(***************************************************************************)
(* The state.                                                              *)
(***************************************************************************)
VARIABLES
  gmailTools,           \* agent.gmailTools is set: a mailbox is configured
  isAuthenticated,      \* GmailTools.isAuthenticated
  mailLog,              \* history: the handshakes and remote requests so far
  conversationHistory,  \* context.conversationHistory (timestamps left out)
  files,                \* the file system: full path -> content
  cliPc,                \* where CLI.start stands
  linesRead,            \* how many lines the prompt has returned
  input,                \* the line CLI.start read last
  turns,                \* the invocations of processMessage, oldest first
  runResult,            \* runResult of the `run` verb: the last direct result
  execLog,              \* the commands handed to child_process.exec
  session,              \* the kind of session explored, see Sessions
  cwd,                  \* currentDirectory of the context, of FileTools and
                        \* of CommandTools
  recentFiles,          \* context.recentFiles
  recentCommands,       \* context.recentCommands
  snapshot,             \* the object a caller of getContext or getMCPContext
                        \* holds
  verbResult,           \* the Result a built-in verb other than `run` got
                        \* last (listResult, readResult, writeResult, ...)
  child                 \* one invocation of executeCommandWithTimeout: its
                        \* subprocess and its promise

others == << session, cwd, recentFiles, recentCommands, snapshot, verbResult,
            child >>

vars == << gmailTools, isAuthenticated, mailLog, conversationHistory, files, cliPc,
           linesRead, input, turns, runResult, execLog, others >>

NoResult == ToolResult(FALSE, NoData, Undefined, Undefined)

\* a field of a returned object that holds an array holds the very array
\* of the agent's context; NoArray: the object has no such field
SameArray == [kind |-> "same"]
NoArray == [kind |-> "none"]

NoSnapshot ==
  [ kind |-> "none", currentDirectory |-> <<>>, recentFiles |-> NoArray,
    recentCommands |-> NoArray, conversationHistory |-> NoArray,
    messageCount |-> 0, gmailAvailable |-> FALSE ]

\* getContext: { ...this.context } copies the four fields of the context
\* into a new object; a field that holds an array holds the same array
getContext(context) ==
  [ kind |-> "context", currentDirectory |-> context.currentDirectory,
    recentFiles |-> SameArray, recentCommands |-> SameArray,
    conversationHistory |-> SameArray,
    messageCount |-> 0, gmailAvailable |-> FALSE ]

\* getMCPContext: the directory, the two arrays themselves, the number of
\* messages and whether a mailbox is configured
getMCPContext(context, gmail) ==
  [ kind |-> "mcp", currentDirectory |-> context.currentDirectory,
    recentFiles |-> SameArray, recentCommands |-> SameArray,
    conversationHistory |-> NoArray,
    messageCount |-> Len(context.conversationHistory),
    gmailAvailable |-> gmail ]

\* this.context
Context ==
  [ currentDirectory |-> cwd.context, recentFiles |-> recentFiles,
    recentCommands |-> recentCommands,
    conversationHistory |-> conversationHistory ]

\* a promise: pending, or settled with the value of the first resolve

\* resolve(value): a settled promise stays as it is
Resolve(promise, value) ==
  IF promise.settled THEN promise ELSE [settled |-> TRUE, value |-> value]

\* no invocation of executeCommandWithTimeout yet
NoChild ==
  [ state |-> "none",        \* none, running, ending, closed, failed
    command |-> <<>>,
    timeoutMs |-> 0,
    elapsed |-> 0,           \* the time the subprocess has run
    killed |-> FALSE,        \* ChildProcess.killed: it was sent a signal
    stdout |-> <<>>,
    stderr |-> <<>>,
    promise |-> [settled |-> FALSE, value |-> NoResult],
    resolves |-> 0 ]         \* how many times a handler called resolve

\* the local state of one invocation of processMessage
Frame(userMessage) ==
  [ phase |-> "Prompting",      \* Prompting, AwaitingModel, Dispatching, Done
    userMessage |-> userMessage,
    messages |-> <<>>,          \* the prompt handed to the model
    modelFailed |-> FALSE,      \* callOpenAI went through its catch clause
    aiResponse |-> <<>>,
    toolCalls |-> <<>>,
    calls |-> <<>>,             \* per call: funcName and args, as parsed
    status |-> <<>>,            \* per call: waiting, inflight, collected
    held |-> <<>>,              \* per call: the result its promise holds
    thrown |-> <<>>,            \* per call: what its operation threw
    results |-> <<>>,
    origin |-> <<>>,            \* per result: the call it answers
    response |-> <<>> ]         \* the value returned

Init ==
  /\ session \in Sessions
  /\ gmailTools \in BOOLEAN
  /\ isAuthenticated = FALSE
  /\ mailLog = <<>>
  /\ conversationHistory = <<>>
  /\ files = InitialFiles(session)
  /\ cliPc = "prompt"
  /\ linesRead = 0
  /\ input = <<>>
  /\ turns = <<>>
  /\ runResult = NoResult
  /\ execLog = <<>>
  /\ cwd = [context |-> InitialDirectory, fileTools |-> InitialDirectory,
            commandTools |-> InitialDirectory]
  /\ recentFiles = <<>>
  /\ recentCommands = <<>>
  /\ snapshot = NoSnapshot
  /\ verbResult = NoResult
  /\ child = NoChild

(***************************************************************************)
(* cli.ts: CLI.start, handleSpecialCommands, handleBuiltInCommands.        *)
(***************************************************************************)
SpecialVerbs ==
  { <<"h", "e", "l", "p">>, <<"q", "u", "i", "t">>, <<"e", "x", "i", "t">>, <<"c", "l", "e", "a", "r">>, <<"c", "o", "n", "t", "e", "x", "t">> }

BuiltInVerbs ==
  { <<"c", "d">>, <<"l", "s">>, <<"l", "i", "s", "t">>, <<"r", "e", "a", "d">>, <<"w", "r", "i", "t", "e">>, <<"r", "u", "n">>, <<"e", "m", "a", "i", "l", "s">>,
    <<"u", "n", "r", "e", "a", "d">>, <<"s", "e", "a", "r", "c", "h">>, <<"e", "m", "a", "i", "l">>, <<"s", "e", "n", "d">>, <<"d", "r", "a", "f", "t">>, <<"r", "e", "a", "d", "-", "e", "m", "a", "i", "l">>,
    <<"d", "e", "l", "e", "t", "e", "-", "e", "m", "a", "i", "l">>, <<"a", "n", "a", "l", "y", "z", "e">> }

\* input.trim().split(' ')
Parts(line) == split(trim(line), " ")

\* the special verbs looked for in the first word of the line
RouteByFirstWord(line) ==
  IF trim(line) = <<>> THEN <<"empty">>
  ELSE IF toLowerCase(Parts(line)[1]) \in SpecialVerbs \cup BuiltInVerbs
  THEN toLowerCase(Parts(line)[1])
  ELSE <<"agent">>

\* which branch of the loop body a line takes: "empty", the special verb,
\* the built-in verb, or "agent" for the text handed to processMessage
Route(line) ==
  IF trim(line) = <<>> THEN <<"empty">>
  ELSE IF toLowerCase(trim(line)) \in SpecialVerbs THEN toLowerCase(trim(line))
  ELSE IF toLowerCase(Parts(line)[1]) \in BuiltInVerbs THEN toLowerCase(Parts(line)[1])
  ELSE <<"agent">>

\* promptUser resolves with a line
ReadLine(line) ==
  /\ cliPc = "prompt"
  /\ linesRead < LineLimit(session)
  /\ line \in Typed(session)
  /\ linesRead' = linesRead + 1
  /\ input' = line

\* the loop without its test for an empty line: the line goes to
\* processMessage
EmptyLineForwarded ==
  \E line \in Typed(session) :
    /\ ReadLine(line)
    /\ Route(line) = <<"empty">>
    /\ conversationHistory' =
         Append(conversationHistory, AgentMessage("user", line))
    /\ turns' = Append(turns, Frame(line))
    /\ cliPc' = "awaitTurn"
    /\ UNCHANGED << others, gmailTools, isAuthenticated, mailLog, files, runResult,
                    execLog >>

\* if (!input.trim()) continue
EmptyLine ==
  \E line \in Typed(session) :
    /\ ReadLine(line)
    /\ Route(line) = <<"empty">>
    /\ UNCHANGED << others, gmailTools, isAuthenticated, mailLog, conversationHistory, files,
                    cliPc, turns, runResult, execLog >>

\* case 'quit', case 'exit': process.exit(0)
Quit ==
  \E line \in Typed(session) :
    /\ ReadLine(line)
    /\ Route(line) \in { <<"q", "u", "i", "t">>, <<"e", "x", "i", "t">> }
    /\ cliPc' = "exited"
    /\ UNCHANGED << others, gmailTools, isAuthenticated, mailLog, conversationHistory, files,
                    turns, runResult, execLog >>

\* case 'clear' emptying the history
ClearErases ==
  \E line \in Typed(session) :
    /\ ReadLine(line)
    /\ Route(line) = <<"c", "l", "e", "a", "r">>
    /\ conversationHistory' = <<>>
    /\ UNCHANGED << others, gmailTools, isAuthenticated, mailLog, files,
                    cliPc, turns, runResult, execLog >>

\* case 'clear': prints that the history was cleared
Clear ==
  \E line \in Typed(session) :
    /\ ReadLine(line)
    /\ Route(line) = <<"c", "l", "e", "a", "r">>
    /\ UNCHANGED << others, gmailTools, isAuthenticated, mailLog, conversationHistory, files,
                    cliPc, turns, runResult, execLog >>

\* case 'context': prints what getContext and getMCPContext return
ShowContext ==
  \E line \in Typed(session) :
    /\ ReadLine(line)
    /\ Route(line) = <<"c", "o", "n", "t", "e", "x", "t">>
    /\ UNCHANGED << others, gmailTools, isAuthenticated, mailLog, conversationHistory, files,
                    cliPc, turns, runResult, execLog >>

\* case 'run' with a command: agent.executeCommand(cmd), gated
Run ==
  \E line \in Typed(session) :
    /\ ReadLine(line)
    /\ Route(line) = <<"r", "u", "n">>
    /\ Len(Parts(line)) >= 2
    /\ LET cmd == join(sliceFrom(Parts(line), 1), " ")
       IN  IF ~ isSafeCommand(cmd)
           THEN /\ runResult' = BlockedResult(cmd)
                /\ UNCHANGED << cliPc, execLog >>
           ELSE /\ execLog' = Append(execLog, cmd)
                /\ cliPc' = "awaitRun"
                /\ runResult' = NoResult
    /\ UNCHANGED << others, gmailTools, isAuthenticated, mailLog, conversationHistory, files, turns >>

\* the subprocess of `run` is over; a rejection is caught by the loop
RunSettles ==
  \E o \in ExecOutcomes :
    /\ cliPc = "awaitRun"
    /\ cliPc' = "prompt"
    /\ runResult' = IF o.kind = "throw"
                    THEN runResult
                    ELSE CommandResolved(execLog[Len(execLog)], o)
    /\ UNCHANGED << others, gmailTools, isAuthenticated, mailLog, conversationHistory, files,
                    linesRead, input, turns, execLog >>

\* case 'help': displayHelp
Help ==
  \E line \in Typed(session) :
    /\ ReadLine(line)
    /\ Route(line) = <<"h", "e", "l", "p">>
    /\ UNCHANGED << others, gmailTools, isAuthenticated, mailLog, conversationHistory,
                    files, cliPc, turns, runResult, execLog >>

\* the number of parts below which a built-in verb prints its usage
MinParts(verb) ==
  IF verb \in { <<"l", "s">>, <<"l", "i", "s", "t">>, <<"e", "m", "a", "i", "l", "s">>, <<"u", "n", "r", "e", "a", "d">> } THEN 1
  ELSE IF verb = <<"w", "r", "i", "t", "e">> THEN 3
  ELSE IF verb \in { <<"s", "e", "n", "d">>, <<"d", "r", "a", "f", "t">> } THEN 4
  ELSE 2

\* a built-in verb with too few parts: prints its usage
Usage ==
  \E line \in Typed(session) :
    /\ ReadLine(line)
    /\ Route(line) \in BuiltInVerbs
    /\ Len(Parts(line)) < MinParts(Route(line))
    /\ UNCHANGED << others, gmailTools, isAuthenticated, mailLog, conversationHistory,
                    files, cliPc, turns, runResult, execLog >>

\* a built-in verb with the parts it needs
Verb(line, verb) ==
  /\ ReadLine(line)
  /\ Route(line) = verb
  /\ Len(Parts(line)) >= MinParts(verb)

\* setCurrentDirectory of the agent, of FileTools (path.resolve against
\* the directory of the process) and of CommandTools
setCurrentDirectory(directory) ==
  [ context |-> directory,
    fileTools |-> resolve(InitialDirectory, directory),
    commandTools |-> directory ]

\* case 'cd' with a directory
ChangeDirectory ==
  \E line \in Typed(session) :
    /\ Verb(line, <<"c", "d">>)
    /\ cwd' = setCurrentDirectory(Parts(line)[2])
    /\ UNCHANGED << session, recentFiles, recentCommands, snapshot, verbResult,
                    child,
                    gmailTools, isAuthenticated, mailLog, conversationHistory,
                    files, cliPc, turns, runResult, execLog >>

\* case 'ls', case 'list': agent.listFiles()
List ==
  \E line \in Typed(session) :
    /\ Verb(line, <<"l", "s">>) \/ Verb(line, <<"l", "i", "s", "t">>)
    /\ verbResult' = listFiles(files, cwd.fileTools, <<".">>).result
    /\ UNCHANGED << session, cwd, recentFiles, recentCommands, snapshot, child,
                    gmailTools, isAuthenticated, mailLog, conversationHistory,
                    files, cliPc, turns, runResult, execLog >>

\* case 'read' with a file: agent.readFile(parts[1])
Read ==
  \E line \in Typed(session) :
    /\ Verb(line, <<"r", "e", "a", "d">>)
    /\ verbResult' = readFile(files, cwd.fileTools, Parts(line)[2]).result
    /\ UNCHANGED << session, cwd, recentFiles, recentCommands, snapshot, child,
                    gmailTools, isAuthenticated, mailLog, conversationHistory,
                    files, cliPc, turns, runResult, execLog >>

\* case 'write' with a file and a content: agent.writeFile(parts[1], content)
Write ==
  \E line \in Typed(session) :
    /\ Verb(line, <<"w", "r", "i", "t", "e">>)
    /\ LET content == join(sliceFrom(Parts(line), 2), " ")
           outcome == writeFile(files, cwd.fileTools, Parts(line)[2], content)
       IN  /\ verbResult' = outcome.result
           /\ files' = outcome.files
    /\ UNCHANGED << session, cwd, recentFiles, recentCommands, snapshot, child,
                    gmailTools, isAuthenticated, mailLog, conversationHistory,
                    cliPc, turns, runResult, execLog >>

\* case 'read': the contents are shown when the Result has success and data
\* that JavaScript takes for true (a text of no character is taken for
\* false); the message is shown as a failure otherwise
ShowsContents(readResult) ==
  /\ readResult.success
  /\ \/ readResult.data.type = "object"
     \/ readResult.data.type = "string" /\ Len(readResult.data.value) > 0

\* the method of the agent a mail verb calls
MailVerbs ==
  { <<"e", "m", "a", "i", "l", "s">>, <<"u", "n", "r", "e", "a", "d">>, <<"s", "e", "a", "r", "c", "h">>, <<"e", "m", "a", "i", "l">>, <<"s", "e", "n", "d">>, <<"d", "r", "a", "f", "t">>,
    <<"r", "e", "a", "d", "-", "e", "m", "a", "i", "l">>, <<"d", "e", "l", "e", "t", "e", "-", "e", "m", "a", "i", "l">>, <<"a", "n", "a", "l", "y", "z", "e">> }

MailMethod(verb) ==
  IF verb = <<"e", "m", "a", "i", "l", "s">> THEN <<"l", "i", "s", "t", "E", "m", "a", "i", "l", "s">>
  ELSE IF verb = <<"u", "n", "r", "e", "a", "d">> THEN <<"g", "e", "t", "U", "n", "r", "e", "a", "d", "E", "m", "a", "i", "l", "s">>
  ELSE IF verb = <<"s", "e", "a", "r", "c", "h">> THEN <<"s", "e", "a", "r", "c", "h", "E", "m", "a", "i", "l", "s">>
  ELSE IF verb = <<"e", "m", "a", "i", "l">> THEN <<"g", "e", "t", "E", "m", "a", "i", "l">>
  ELSE IF verb = <<"s", "e", "n", "d">> THEN <<"s", "e", "n", "d", "E", "m", "a", "i", "l">>
  ELSE IF verb = <<"d", "r", "a", "f", "t">> THEN <<"c", "r", "e", "a", "t", "e", "D", "r", "a", "f", "t">>
  ELSE IF verb = <<"r", "e", "a", "d", "-", "e", "m", "a", "i", "l">> THEN <<"m", "a", "r", "k", "A", "s", "R", "e", "a", "d">>
  ELSE IF verb = <<"d", "e", "l", "e", "t", "e", "-", "e", "m", "a", "i", "l">> THEN <<"d", "e", "l", "e", "t", "e", "E", "m", "a", "i", "l">>
  ELSE <<"a", "n", "a", "l", "y", "z", "e", "E", "m", "a", "i", "l", "T", "h", "r", "e", "a", "d">>

\* what the messages of the Result name: the id, or the subject of a draft
MailSubject(line) ==
  IF Route(line) \in { <<"s", "e", "n", "d">>, <<"d", "r", "a", "f", "t">> } THEN Parts(line)[3]
  ELSE IF Len(Parts(line)) >= 2 THEN Parts(line)[2]
  ELSE <<>>

\* a mail verb: the method of the agent answers at once with no mailbox
\* configured, else the operation of GmailTools is awaited
Mail ==
  \E line \in Typed(session) :
    /\ ReadLine(line)
    /\ Route(line) \in MailVerbs
    /\ Len(Parts(line)) >= MinParts(Route(line))
    /\ IF gmailTools
       THEN /\ cliPc' = "awaitMail"
            /\ verbResult' = NoResult
       ELSE /\ verbResult' = GmailUnavailable
            /\ UNCHANGED cliPc
    /\ UNCHANGED << session, cwd, recentFiles, recentCommands, snapshot, child,
                    gmailTools, isAuthenticated, mailLog, conversationHistory,
                    files, turns, runResult, execLog >>

\* the mailbox operation of a mail verb is over
MailSettles ==
  \E o \in MailboxOutcomes(isAuthenticated) :
    /\ cliPc = "awaitMail"
    /\ cliPc' = "prompt"
    /\ isAuthenticated' = (isAuthenticated \/ o # "authFails")
    /\ mailLog' = mailLog \o MailboxSteps(isAuthenticated, o)
    /\ verbResult' = MailboxResult(MailMethod(Route(input)), MailSubject(input), o)
    /\ UNCHANGED << session, cwd, recentFiles, recentCommands, snapshot, child,
                    gmailTools, conversationHistory, files,
                    linesRead, input, turns, runResult, execLog >>

\* processMessage called and not awaited: the loop prompts again at once
ProcessWithAgentNotAwaited ==
  \E line \in Typed(session) :
    /\ ReadLine(line)
    /\ Route(line) = <<"agent">>
    /\ conversationHistory' =
         Append(conversationHistory, AgentMessage("user", line))
    /\ turns' = Append(turns, Frame(line))
    /\ UNCHANGED << others, gmailTools, isAuthenticated, mailLog, files, cliPc, runResult, execLog >>

\* any other line: agent.processMessage(input), awaited.  processMessage
\* appends the user message and asks for the system prompt
ProcessWithAgent ==
  \E line \in Typed(session) :
    /\ ReadLine(line)
    /\ Route(line) = <<"agent">>
    /\ conversationHistory' =
         Append(conversationHistory, AgentMessage("user", line))
    /\ turns' = Append(turns, Frame(line))
    /\ cliPc' = "awaitTurn"
    /\ UNCHANGED << others, gmailTools, isAuthenticated, mailLog, files, runResult, execLog >>

\* the awaited processMessage has returned: print, prompt again
TurnReturned ==
  /\ cliPc = "awaitTurn"
  /\ turns[Len(turns)].phase = "Done"
  /\ cliPc' = "prompt"
  /\ UNCHANGED << others, gmailTools, isAuthenticated, mailLog, conversationHistory, files,
                  linesRead, input, turns, runResult, execLog >>

(***************************************************************************)
(* agent.ts: one invocation of processMessage, step by step.  A step runs  *)
(* from one await to the next.                                             *)
(***************************************************************************)
Live(t) == t \in 1..Len(turns) /\ turns[t].phase # "Done"

\* the system prompt is there: build the messages and call the model
BuildPrompt(t) ==
  /\ Live(t)
  /\ turns[t].phase = "Prompting"
  /\ turns' = [turns EXCEPT
       ![t].messages = PromptMessages(conversationHistory,
                                      generateSystemPrompt(files, cwd.fileTools, gmailTools)),
       ![t].phase = "AwaitingModel"]
  /\ UNCHANGED << others, gmailTools, isAuthenticated, mailLog, conversationHistory, files,
                  cliPc, linesRead, input, runResult, execLog >>

\* callOpenAI has its text: parseAndExecuteTools extracts the calls from it
StartDispatching(t, text, failed) ==
  LET toolCalls == extractToolCalls(text)
  IN  turns' = [turns EXCEPT
        ![t].phase = "Dispatching",
        ![t].modelFailed = failed,
        ![t].aiResponse = text,
        ![t].toolCalls = toolCalls,
        ![t].calls = [k \in 1..Len(toolCalls) |-> parseToolCall(toolCalls[k])],
        ![t].status = [k \in 1..Len(toolCalls) |-> "waiting"],
        ![t].held = [k \in 1..Len(toolCalls) |-> NoResult],
        ![t].thrown = [k \in 1..Len(toolCalls) |-> NothingThrown]]

\* the model answers with a text
ModelResponds(t) ==
  \E text \in Answered(session) :
    /\ Live(t)
    /\ turns[t].phase = "AwaitingModel"
    /\ StartDispatching(t, text, FALSE)
    /\ UNCHANGED << others, gmailTools, isAuthenticated, mailLog, conversationHistory, files,
                    cliPc, linesRead, input, runResult, execLog >>

\* the model answers with no content: content || 'No response from AI'
ModelRespondsEmpty(t) ==
  /\ Live(t)
  /\ session \in {"mixed", "commands"}
  /\ turns[t].phase = "AwaitingModel"
  /\ StartDispatching(t, NoResponseText, FALSE)
  /\ UNCHANGED << others, gmailTools, isAuthenticated, mailLog, conversationHistory, files,
                  cliPc, linesRead, input, runResult, execLog >>

\* callOpenAI without its catch clause: processMessage rejects
ModelFailsRethrows(t) ==
  /\ Live(t)
  /\ session \in {"mixed", "commands"}
  /\ turns[t].phase = "AwaitingModel"
  /\ turns' = [turns EXCEPT ![t].phase = "Done", ![t].modelFailed = TRUE]
  /\ UNCHANGED << others, gmailTools, isAuthenticated, mailLog, conversationHistory, files,
                  cliPc, linesRead, input, runResult, execLog >>

\* the call to the model fails: the catch clause returns the apology
ModelFails(t) ==
  /\ Live(t)
  /\ session \in {"mixed", "commands"}
  /\ turns[t].phase = "AwaitingModel"
  /\ StartDispatching(t, ApologyText, TRUE)
  /\ UNCHANGED << others, gmailTools, isAuthenticated, mailLog, conversationHistory, files,
                  cliPc, linesRead, input, runResult, execLog >>

\* the calls whose operation has been started and not yet answered
InFlight(frame) == { k \in 1..Len(frame.toolCalls) : frame.status[k] = "inflight" }

\* the call the loop is at: the first one not yet started
Waiting(frame) == { k \in 1..Len(frame.toolCalls) : frame.status[k] = "waiting" }
NextCall(frame) == CHOOSE k \in Waiting(frame) : \A j \in Waiting(frame) : k <= j

\* the loop without the await: every call is started at once
NeverAwaits(frame) == TRUE

\* each iteration awaits its call before the loop goes on
AwaitsPrevious(frame) == InFlight(frame) = {}

\* the loop is at call k: its name, its arguments and the case it takes
AtCall(t, k, case) ==
  /\ Live(t)
  /\ turns[t].phase = "Dispatching"
  /\ Waiting(turns[t]) # {}
  /\ k = NextCall(turns[t])
  /\ AwaitsPrevious(turns[t])
  /\ LET call == turns[t].calls[k]
     IN  SwitchCase(call.funcName, call.args, gmailTools) = case

\* the loop pushing the results of the successful calls only
CollectedUnlessFailed(t, k, result, thrown) ==
  turns' = [turns EXCEPT
    ![t].status[k] = "collected",
    ![t].thrown[k] = thrown,
    ![t].results = IF result.success THEN Append(@, result) ELSE @,
    ![t].origin = IF result.success THEN Append(@, k) ELSE @]

\* results.push(result) for call k, in the try block or in its catch clause
Collected(t, k, result, thrown) ==
  turns' = [turns EXCEPT
    ![t].status[k] = "collected",
    ![t].thrown[k] = thrown,
    ![t].results = Append(@, result),
    ![t].origin = Append(@, k)]

\* the file operation of a call also recorded in context.recentFiles
DispatchFileRecording(t) ==
  \E k \in 1..Len(turns[t].toolCalls) :
    /\ AtCall(t, k, "file")
    /\ LET call == turns[t].calls[k]
           outcome == FileCase(files, cwd.fileTools, call.funcName, call.args)
       IN  /\ files' = outcome.files
           /\ recentFiles' = Append(recentFiles, Arg(call.args, 0))
           /\ turns' = [turns EXCEPT ![t].status[k] = "inflight",
                                     ![t].held[k] = outcome.result]
    /\ UNCHANGED << session, cwd, recentCommands, snapshot, verbResult, child,
                    gmailTools, isAuthenticated, mailLog, conversationHistory,
                    cliPc, linesRead, input, runResult, execLog >>

\* case readFile, writeFile, editFile, listFiles: the file operation runs
\* now, its promise is awaited
DispatchFile(t) ==
  \E k \in 1..Len(turns[t].toolCalls) :
    /\ AtCall(t, k, "file")
    /\ LET call == turns[t].calls[k]
           outcome == FileCase(files, cwd.fileTools, call.funcName, call.args)
       IN  /\ files' = outcome.files
           /\ turns' = [turns EXCEPT ![t].status[k] = "inflight",
                                     ![t].held[k] = outcome.result]
    /\ UNCHANGED << others, gmailTools, isAuthenticated, mailLog, conversationHistory,
                    cliPc, linesRead, input, runResult, execLog >>

\* case executeCommand with a command the gate lets through: exec
DispatchProcess(t) ==
  \E k \in 1..Len(turns[t].toolCalls) :
    /\ AtCall(t, k, "process")
    /\ execLog' = Append(execLog, Arg(turns[t].calls[k].args, 0))
    /\ turns' = [turns EXCEPT ![t].status[k] = "inflight"]
    /\ UNCHANGED << others, gmailTools, isAuthenticated, mailLog, conversationHistory, files,
                    cliPc, linesRead, input, runResult >>

\* a mailbox case with the mailbox configured: the operation is started
DispatchMailbox(t) ==
  \E k \in 1..Len(turns[t].toolCalls) :
    /\ AtCall(t, k, "mailbox")
    /\ turns' = [turns EXCEPT ![t].status[k] = "inflight"]
    /\ UNCHANGED << others, gmailTools, isAuthenticated, mailLog, conversationHistory, files,
                    cliPc, linesRead, input, runResult, execLog >>

\* case executeCommand with a command the gate rejects
DispatchBlocked(t) ==
  \E k \in 1..Len(turns[t].toolCalls) :
    /\ AtCall(t, k, "blocked")
    /\ LET call == turns[t].calls[k]
       IN  Collected(t, k, ImmediateResult(call.funcName, call.args, gmailTools),
                     NothingThrown)
    /\ UNCHANGED << others, gmailTools, isAuthenticated, mailLog, conversationHistory, files,
                    cliPc, linesRead, input, runResult, execLog >>

\* a mailbox case with no mailbox configured
DispatchUnavailable(t) ==
  \E k \in 1..Len(turns[t].toolCalls) :
    /\ AtCall(t, k, "unavailable")
    /\ LET call == turns[t].calls[k]
       IN  Collected(t, k, ImmediateResult(call.funcName, call.args, gmailTools),
                     NothingThrown)
    /\ UNCHANGED << others, gmailTools, isAuthenticated, mailLog, conversationHistory, files,
                    cliPc, linesRead, input, runResult, execLog >>

\* the default case of the switch
DispatchDefault(t) ==
  \E k \in 1..Len(turns[t].toolCalls) :
    /\ AtCall(t, k, "default")
    /\ LET call == turns[t].calls[k]
       IN  Collected(t, k, ImmediateResult(call.funcName, call.args, gmailTools),
                     NothingThrown)
    /\ UNCHANGED << others, gmailTools, isAuthenticated, mailLog, conversationHistory, files,
                    cliPc, linesRead, input, runResult, execLog >>

\* the case call k took when it was started
StartedAs(t, k, case) ==
  /\ Live(t)
  /\ k \in InFlight(turns[t])
  /\ LET call == turns[t].calls[k]
     IN  SwitchCase(call.funcName, call.args, gmailTools) = case

\* the awaited file operation is back
FileSettles(t) ==
  \E k \in 1..Len(turns[t].toolCalls) :
    /\ StartedAs(t, k, "file")
    /\ Collected(t, k, turns[t].held[k], NothingThrown)
    /\ UNCHANGED << others, gmailTools, isAuthenticated, mailLog, conversationHistory, files,
                    cliPc, linesRead, input, runResult, execLog >>

\* the subprocess is over, or exec threw and the catch clause has it
ProcessSettles(t) ==
  \E k \in 1..Len(turns[t].toolCalls), o \in ExecOutcomes :
    /\ StartedAs(t, k, "process")
    /\ IF o.kind = "throw"
       THEN Collected(t, k, CaughtResult(o.thrown, turns[t].toolCalls[k]),
                      o.thrown)
       ELSE Collected(t, k, CommandResolved(Arg(turns[t].calls[k].args, 0), o),
                      NothingThrown)
    /\ UNCHANGED << others, gmailTools, isAuthenticated, mailLog, conversationHistory, files,
                    cliPc, linesRead, input, runResult, execLog >>

\* the mailbox operation is over
MailboxSettles(t) ==
  \E k \in 1..Len(turns[t].toolCalls), o \in MailboxOutcomes(isAuthenticated) :
    /\ StartedAs(t, k, "mailbox")
    /\ isAuthenticated' = (isAuthenticated \/ o # "authFails")
    /\ mailLog' = mailLog \o MailboxSteps(isAuthenticated, o)
    /\ Collected(t, k,
                 MailboxResult(turns[t].calls[k].funcName,
                               Arg(turns[t].calls[k].args, 0), o),
                 NothingThrown)
    /\ UNCHANGED << others, gmailTools, conversationHistory, files,
                    cliPc, linesRead, input, runResult, execLog >>

\* processMessage returning the composed text without recording it
ReturnResponseUnrecorded(t) ==
  /\ Live(t)
  /\ turns[t].phase = "Dispatching"
  /\ Waiting(turns[t]) = {}
  /\ InFlight(turns[t]) = {}
  /\ LET text == finalResponse(turns[t].aiResponse, turns[t].results)
     IN  turns' = [turns EXCEPT ![t].phase = "Done", ![t].response = text]
  /\ UNCHANGED << others, gmailTools, isAuthenticated, mailLog, conversationHistory,
                  files, cliPc, linesRead, input, runResult, execLog >>

\* every call has its result: compose the text, append the assistant
\* message, return
\* the composed text returned only when no call failed
ReturnResponseOnSuccess(t) ==
  /\ Live(t)
  /\ turns[t].phase = "Dispatching"
  /\ Waiting(turns[t]) = {}
  /\ InFlight(turns[t]) = {}
  /\ \A k \in 1..Len(turns[t].results) : turns[t].results[k].success
  /\ LET text == finalResponse(turns[t].aiResponse, turns[t].results)
     IN  /\ conversationHistory' =
               Append(conversationHistory, AgentMessage("assistant", text))
         /\ turns' = [turns EXCEPT ![t].phase = "Done", ![t].response = text]
  /\ UNCHANGED << others, gmailTools, isAuthenticated, mailLog, files,
                  cliPc, linesRead, input, runResult, execLog >>

\* the composed text returned while calls are still waiting or in flight
ReturnResponseEarly(t) ==
  /\ Live(t)
  /\ turns[t].phase = "Dispatching"
  /\ LET text == finalResponse(turns[t].aiResponse, turns[t].results)
     IN  /\ conversationHistory' =
               Append(conversationHistory, AgentMessage("assistant", text))
         /\ turns' = [turns EXCEPT ![t].phase = "Done", ![t].response = text]
  /\ UNCHANGED << others, gmailTools, isAuthenticated, mailLog, files,
                  cliPc, linesRead, input, runResult, execLog >>

ReturnResponse(t) ==
  /\ Live(t)
  /\ turns[t].phase = "Dispatching"
  /\ Waiting(turns[t]) = {}
  /\ InFlight(turns[t]) = {}
  /\ LET text == finalResponse(turns[t].aiResponse, turns[t].results)
     IN  /\ conversationHistory' =
               Append(conversationHistory, AgentMessage("assistant", text))
         /\ turns' = [turns EXCEPT ![t].phase = "Done", ![t].response = text]
  /\ UNCHANGED << others, gmailTools, isAuthenticated, mailLog, files,
                  cliPc, linesRead, input, runResult, execLog >>

Next ==
  \/ EmptyLine
  \/ Quit
  \/ Clear
  \/ ShowContext
  \/ Run
  \/ RunSettles
  \/ Help
  \/ Usage
  \/ ChangeDirectory
  \/ List
  \/ Read
  \/ Write
  \/ Mail
  \/ MailSettles
  \/ ProcessWithAgent
  \/ TurnReturned
  \/ \E t \in 1..Len(turns) : BuildPrompt(t)
  \/ \E t \in 1..Len(turns) : ModelResponds(t)
  \/ \E t \in 1..Len(turns) : ModelRespondsEmpty(t)
  \/ \E t \in 1..Len(turns) : ModelFails(t)
  \/ \E t \in 1..Len(turns) : DispatchFile(t)
  \/ \E t \in 1..Len(turns) : DispatchProcess(t)
  \/ \E t \in 1..Len(turns) : DispatchMailbox(t)
  \/ \E t \in 1..Len(turns) : DispatchBlocked(t)
  \/ \E t \in 1..Len(turns) : DispatchUnavailable(t)
  \/ \E t \in 1..Len(turns) : DispatchDefault(t)
  \/ \E t \in 1..Len(turns) : FileSettles(t)
  \/ \E t \in 1..Len(turns) : ProcessSettles(t)
  \/ \E t \in 1..Len(turns) : MailboxSettles(t)
  \/ \E t \in 1..Len(turns) : ReturnResponse(t)

Spec == Init /\ [][Next]_vars

\* a step of processMessage that needs no answer of the model: its own
\* continuations, and the settling of a file, process or mailbox operation
TurnStep ==
  \E t \in 1..Len(turns) :
    \/ BuildPrompt(t)
    \/ DispatchFile(t) \/ DispatchProcess(t) \/ DispatchMailbox(t)
    \/ DispatchBlocked(t) \/ DispatchUnavailable(t) \/ DispatchDefault(t)
    \/ FileSettles(t) \/ ProcessSettles(t) \/ MailboxSettles(t)
    \/ ReturnResponse(t)

\* where each turn stands: its phase and the status of its calls, which
\* every step of processMessage changes
progress == [t \in 1..Len(turns) |-> << turns[t].phase, turns[t].status >>]

\* a turn is waiting for the promise of callOpenAI
AwaitingModel == \E t \in 1..Len(turns) : turns[t].phase = "AwaitingModel"

\* the program when every awaited promise settles at some time: the event
\* loop runs a continuation that is ready, the operations answer or fail,
\* and no turn waits for the model for ever
SpecFair ==
  Init /\ [][Next]_vars /\ WF_progress(TurnStep) /\ []<>(~AwaitingModel)

(***************************************************************************)
(* A caller of the agent's interface other than the CLI: it asks for the   *)
(* context and changes what it was given.                                  *)
(***************************************************************************)
\* the sessions in which such a caller is explored

\* what the caller pushes: a message, and a name
CallerMessage == AgentMessage("system", <<"x">>)
CallerName == <<"x">>

CallerAtWork ==
  /\ session = "caller"
  /\ cliPc = "prompt"

\* const context = agent.getContext()
CallerGetsContext ==
  /\ CallerAtWork
  /\ snapshot.kind # "context"
  /\ snapshot' = getContext(Context)
  /\ UNCHANGED << gmailTools, isAuthenticated, mailLog, conversationHistory, files,
                  cliPc, linesRead, input, turns, runResult, execLog,
                  session, cwd, recentFiles, recentCommands, verbResult, child >>

\* const context = await agent.getMCPContext()
CallerGetsMCPContext ==
  /\ CallerAtWork
  /\ snapshot.kind # "mcp"
  /\ snapshot' = getMCPContext(Context, gmailTools)
  /\ UNCHANGED << gmailTools, isAuthenticated, mailLog, conversationHistory, files,
                  cliPc, linesRead, input, turns, runResult, execLog,
                  session, cwd, recentFiles, recentCommands, verbResult, child >>

\* array.push(item) on an array field of the object held: the array
\* pushed to is the agent's when the field holds the same array
PushTo(field, array, item) ==
  IF snapshot[field].kind = "same" THEN Append(array, item) ELSE array

\* context.conversationHistory.push(message)
CallerPushesMessage ==
  /\ CallerAtWork
  /\ snapshot.conversationHistory.kind # "none"
  /\ \A i \in 1..Len(conversationHistory) : conversationHistory[i] # CallerMessage
  /\ conversationHistory' =
       PushTo("conversationHistory", conversationHistory, CallerMessage)
  /\ UNCHANGED snapshot
  /\ UNCHANGED << gmailTools, isAuthenticated, mailLog, files,
                  cliPc, linesRead, input, turns, runResult, execLog,
                  session, cwd, recentFiles, recentCommands, verbResult, child >>

\* context.recentFiles.push(name)
CallerPushesFile ==
  /\ CallerAtWork
  /\ snapshot.recentFiles.kind # "none"
  /\ recentFiles = <<>>
  /\ recentFiles' = PushTo("recentFiles", recentFiles, CallerName)
  /\ UNCHANGED snapshot
  /\ UNCHANGED << gmailTools, isAuthenticated, mailLog, conversationHistory, files,
                  cliPc, linesRead, input, turns, runResult, execLog,
                  session, cwd, recentCommands, verbResult, child >>

\* context.recentCommands.push(name)
CallerPushesCommand ==
  /\ CallerAtWork
  /\ snapshot.recentCommands.kind # "none"
  /\ recentCommands = <<>>
  /\ recentCommands' = PushTo("recentCommands", recentCommands, CallerName)
  /\ UNCHANGED snapshot
  /\ UNCHANGED << gmailTools, isAuthenticated, mailLog, conversationHistory, files,
                  cliPc, linesRead, input, turns, runResult, execLog,
                  session, cwd, recentFiles, verbResult, child >>

\* context.currentDirectory = name: the field of the object held
CallerSetsDirectory ==
  /\ CallerAtWork
  /\ snapshot.kind # "none"
  /\ snapshot.currentDirectory # CallerName
  /\ snapshot' = [snapshot EXCEPT !.currentDirectory = CallerName]
  /\ UNCHANGED << gmailTools, isAuthenticated, mailLog, conversationHistory, files,
                  cliPc, linesRead, input, turns, runResult, execLog,
                  session, cwd, recentFiles, recentCommands, verbResult, child >>

NextWithCaller ==
  \/ Next
  \/ CallerGetsContext
  \/ CallerGetsMCPContext
  \/ CallerPushesMessage
  \/ CallerPushesFile
  \/ CallerPushesCommand
  \/ CallerSetsDirectory

SpecWithCaller == Init /\ [][NextWithCaller]_vars

(***************************************************************************)
(* tools/commandTools.ts: executeCommandWithTimeout, called by a user of    *)
(* CommandTools.  exec with the option timeout ends the subprocess with     *)
(* SIGTERM when it has run for timeoutMs; a ChildProcess emits close and    *)
(* error (and exit, spawn, disconnect, message), it emits no timeout.       *)
(***************************************************************************)
MaxChunks == 1

Chunk == <<"x">>

\* the events of a ChildProcess the function listens to
ChildEvents == { "close", "error" }

\* the sessions in which the function is explored

\* the timeout handler: process.kill() and this Result
CommandTimedOut(command, timeoutMs) ==
  ToolResult(FALSE, NoData, <<"Command timed out">>,
             <<"Command timed out after ", ToString(timeoutMs), "ms: ">>
               \o command)

\* the handler the function has registered for an event
TimedHandler(c, event, o) ==
  IF event = "close" THEN CommandClosed(c.command, o)
  ELSE IF event = "error" THEN CommandErrored(c.command, o)
  ELSE CommandTimedOut(c.command, c.timeoutMs)

\* the subprocess emits an event: its handler resolves the promise
Emit(c, event, o) ==
  IF event \in ChildEvents
  THEN [c EXCEPT !.promise = Resolve(@, TimedHandler(c, event, o)),
                 !.resolves = @ + 1]
  ELSE c

ChildUnchanged ==
  UNCHANGED << gmailTools, isAuthenticated, mailLog, conversationHistory, files,
               cliPc, linesRead, input, turns, runResult, execLog,
               session, cwd, recentFiles, recentCommands, snapshot,
               verbResult >>

\* executeCommandWithTimeout(command, timeoutMs): exec starts the shell
CallWithTimeout ==
  \E command \in { <<"sleep 5">>, <<"echo hi">> }, timeoutMs \in { 1, 2 } :
    /\ session = "timeout"
    /\ child.state = "none"
    /\ child' = [NoChild EXCEPT !.state = "running", !.command = command,
                                !.timeoutMs = timeoutMs]
    /\ ChildUnchanged

\* the subprocess writes to stdout
StdoutData ==
  /\ child.state = "running"
  /\ Len(child.stdout) < MaxChunks
  /\ child' = [child EXCEPT !.stdout = @ \o Chunk]
  /\ ChildUnchanged

\* the subprocess writes to stderr
StderrData ==
  /\ child.state = "running"
  /\ Len(child.stderr) < MaxChunks
  /\ child' = [child EXCEPT !.stderr = @ \o Chunk]
  /\ ChildUnchanged

\* time passes while the subprocess runs
Tick ==
  /\ child.state = "running"
  /\ child.elapsed < child.timeoutMs
  /\ child' = [child EXCEPT !.elapsed = @ + 1]
  /\ ChildUnchanged

\* the subprocess has run for timeoutMs: exec sends it SIGTERM
TimerFires ==
  /\ child.state = "running"
  /\ child.elapsed = child.timeoutMs
  /\ child' = Emit([child EXCEPT !.state = "ending", !.killed = TRUE],
                   "timeout", <<>>)
  /\ ChildUnchanged

\* the subprocess ends by itself, with a code
ChildCloses ==
  \E code \in {0, 1} :
    /\ child.state = "running"
    /\ child' = Emit([child EXCEPT !.state = "closed"], "close",
                     [kind |-> "close", code |-> code, signal |-> "none",
                      stdout |-> child.stdout, stderr |-> child.stderr])
    /\ ChildUnchanged

\* the subprocess sent SIGTERM ends by the signal: close with the code null
KilledChildCloses ==
  /\ child.state = "ending"
  /\ child' = Emit([child EXCEPT !.state = "closed"], "close",
                   [kind |-> "close", code |-> 0, signal |-> "SIGTERM",
                    stdout |-> child.stdout, stderr |-> child.stderr])
  /\ ChildUnchanged

\* the subprocess sent SIGTERM handles the signal and ends with a code
KilledChildExits ==
  \E code \in {0, 1} :
    /\ child.state = "ending"
    /\ child' = Emit([child EXCEPT !.state = "closed"], "close",
                     [kind |-> "close", code |-> code, signal |-> "none",
                      stdout |-> child.stdout, stderr |-> child.stderr])
    /\ ChildUnchanged

\* the shell could not be started: error, and close after it
ChildErrors ==
  /\ child.state = "running"
  /\ child.elapsed = 0
  /\ child.stdout = <<>> /\ child.stderr = <<>>
  /\ child' = Emit([child EXCEPT !.state = "failed"], "error",
                   [kind |-> "error", message |-> <<"spawn /bin/sh ENOENT">>])
  /\ ChildUnchanged

FailedChildCloses ==
  /\ child.state = "failed"
  /\ child' = Emit([child EXCEPT !.state = "closed"], "close",
                   [kind |-> "close", code |-> -2, signal |-> "none",
                    stdout |-> <<>>, stderr |-> <<>>])
  /\ ChildUnchanged

NextTimed ==
  \/ CallWithTimeout
  \/ StdoutData
  \/ StderrData
  \/ Tick
  \/ TimerFires
  \/ ChildCloses
  \/ KilledChildCloses
  \/ KilledChildExits
  \/ ChildErrors
  \/ FailedChildCloses

SpecTimed == Init /\ [][NextTimed]_vars

(***************************************************************************)
(* The claims.                                                             *)
(***************************************************************************)
Turns == 1..Len(turns)
Answers(t) == 1..Len(turns[t].results)

\* the call that the k-th collected result of turn t answers
CallOf(t, k) == turns[t].calls[turns[t].origin[k]]

\* the lower-cased command contains a deny-listed substring
DenyListed(command) ==
  \E d \in 1..Len(dangerousCommands) :
    includes(toLowerCase(command), dangerousCommands[d])

\* the command of a `run` line
RunCommand(line) == join(sliceFrom(Parts(line), 1), " ")

IsBlocked(result) ==
  /\ result.success = FALSE
  /\ result.error = <<"Command blocked for safety">>

\* C1: on the dispatch path and on the direct path of `run`, no command
\* handed to exec contains a deny-listed substring in its lower-cased
\* text, and a call with such a command gets the failed Result with the
\* error "Command blocked for safety".
C1_GateBeforeExec ==
  /\ \A e \in 1..Len(execLog) : ~ DenyListed(execLog[e])
  /\ \A t \in Turns : \A k \in Answers(t) :
       ( /\ CallOf(t, k).funcName = <<"e", "x", "e", "c", "u", "t", "e", "C", "o", "m", "m", "a", "n", "d">>
         /\ DenyListed(Arg(CallOf(t, k).args, 0)) )
       => IsBlocked(turns[t].results[k])
  /\ ( /\ cliPc = "prompt"
       /\ Route(input) = <<"r", "u", "n">>
       /\ Len(Parts(input)) >= 2
       /\ DenyListed(RunCommand(input)) )
     => IsBlocked(runResult)

\* C1 witness: a dispatched call was blocked, a `run` line was blocked,
\* and a command that passed the gate was handed to exec.
C1_Witness ==
  /\ \E t \in Turns : \E k \in Answers(t) :
       /\ CallOf(t, k).funcName = <<"e", "x", "e", "c", "u", "t", "e", "C", "o", "m", "m", "a", "n", "d">>
       /\ DenyListed(Arg(CallOf(t, k).args, 0))
       /\ IsBlocked(turns[t].results[k])
       /\ execLog # <<>>
  /\ Route(input) = <<"r", "u", "n">>
  /\ DenyListed(RunCommand(input))
  /\ IsBlocked(runResult)

\* C2: with no mailbox configured, the result of a call to any of the
\* ten mailbox names of the extraction pattern is the failure with the
\* error "Gmail tools not available".
C2_EveryMailboxNameUnavailable ==
  \A t \in Turns : \A k \in Answers(t) :
    (~ gmailTools /\ CallOf(t, k).funcName \in MailboxNames)
    => /\ turns[t].results[k].success = FALSE
       /\ turns[t].results[k].error = <<"Gmail tools not available">>

\* C3: no result of a dispatched call carries the error "Unknown tool".
C3_UnknownToolUnreachable ==
  \A t \in Turns : \A k \in Answers(t) :
    turns[t].results[k].error # <<"Unknown tool">>

\* C4: a call whose operation throws is answered by the failed Result
\* that carries the message of the Error, the loop goes on to the next
\* call, and the turn still ends with its response appended and returned.
C4_ThrowBecomesResult ==
  \A t \in Turns :
    /\ \A k \in Answers(t) :
         turns[t].thrown[turns[t].origin[k]].isError
         => /\ turns[t].results[k].success = FALSE
            /\ turns[t].results[k].error = turns[t].thrown[turns[t].origin[k]].message
    /\ \A j \in 1..Len(turns[t].toolCalls) :
         turns[t].thrown[j].isError
         => /\ turns[t].status[j] = "collected"
            /\ \E k \in Answers(t) : turns[t].origin[k] = j
    /\ turns[t].phase = "Done"
       => /\ Len(turns[t].results) = Len(turns[t].toolCalls)
          /\ Len(conversationHistory) >= 2 * t
          /\ conversationHistory[2 * t] = AgentMessage("assistant", turns[t].response)

\* C4 witness: the first of two calls threw, the second was dispatched
\* after it, and the turn has returned.
C4_Witness ==
  \E t \in Turns :
    /\ turns[t].phase = "Done"
    /\ Len(turns[t].results) = 2
    /\ turns[t].thrown[1].isError
    /\ turns[t].results[1].error = <<"spawn failed">>

\* the calls occur in the text one after the other, left to right
RECURSIVE OccurInOrder(_, _, _)
OccurInOrder(text, calls, from) ==
  IF calls = <<>> THEN TRUE
  ELSE \E p \in from..(Len(text) - Len(Head(calls)) + 1) :
         /\ SubSeq(text, p, p + Len(Head(calls)) - 1) = Head(calls)
         /\ OccurInOrder(text, Tail(calls), p + Len(Head(calls)))

\* C5: the extracted calls lie in the text left to right, the k-th
\* collected result answers the k-th call, and a turn that is over holds
\* one result for each call.
C5_OneResultPerCallInOrder ==
  \A t \in Turns :
    /\ (turns[t].phase = "Dispatching" /\ turns[t].results = <<>>)
       => OccurInOrder(turns[t].aiResponse, turns[t].toolCalls, 1)
    /\ turns[t].origin = [k \in Answers(t) |-> k]
    /\ Len(turns[t].results) <= Len(turns[t].toolCalls)
    /\ turns[t].phase = "Done"
       => Len(turns[t].results) = Len(turns[t].toolCalls)

\* C5 witness: a turn is over whose first call failed and whose second
\* call has its result in second place.
C5_Witness ==
  \E t \in Turns :
    /\ turns[t].phase = "Done"
    /\ Len(turns[t].toolCalls) = 2
    /\ turns[t].results[1].success = FALSE
    /\ turns[t].results[2].success = TRUE
    /\ turns[t].origin = <<1, 2>>

\* C6: in a turn at most one call is in flight, a call is started only
\* when every earlier call has its result collected, and a file read that
\* follows the write of the same path returns what was written.
C6_OneCallInFlight ==
  \A t \in Turns :
    /\ Cardinality(InFlight(turns[t])) <= 1
    /\ \A k \in 1..Len(turns[t].toolCalls) :
         turns[t].status[k] # "waiting"
         => \A j \in 1..(k - 1) : turns[t].status[j] = "collected"
    /\ \A k \in Answers(t) :
         ( /\ k > 1
           /\ CallOf(t, k - 1).funcName = <<"w", "r", "i", "t", "e", "F", "i", "l", "e">>
           /\ turns[t].results[k - 1].success
           /\ CallOf(t, k).funcName = <<"r", "e", "a", "d", "F", "i", "l", "e">>
           /\ Arg(CallOf(t, k).args, 0) = Arg(CallOf(t, k - 1).args, 0) )
         => turns[t].results[k].data = StringData(Arg(CallOf(t, k - 1).args, 1))

\* C6 witness: the second call of a turn is in flight after the first
\* one, a write, was collected, and its read has seen the write.
C6_Witness ==
  \E t \in Turns :
    /\ Len(turns[t].toolCalls) = 2
    /\ turns[t].calls[1].funcName = <<"w", "r", "i", "t", "e", "F", "i", "l", "e">>
    /\ turns[t].status = <<"collected", "inflight">>
    /\ turns[t].held[2].data = StringData(<<"h", "i">>)

\* C7: at most one invocation of processMessage is under way, it is the
\* latest one, and the loop of the CLI waits for it: no line is read and
\* no verb runs while a turn is under way.
C7_TurnsDoNotInterleave ==
  /\ Cardinality({ t \in Turns : Live(t) }) <= 1
  /\ \A t \in Turns : Live(t) => (t = Len(turns) /\ cliPc = "awaitTurn")

\* C7 witness: a second turn is dispatching after the first one is over.
C7_Witness ==
  /\ Len(turns) = 2
  /\ turns[1].phase = "Done"
  /\ turns[2].phase = "Dispatching"
  /\ turns[2].toolCalls # <<>>

\* C8: when the call to the model failed, the text of the turn is the
\* apology, no call is extracted or dispatched, and the turn ends with
\* the user message and the apology appended in that order and the
\* apology returned.
C8_ModelFailureRecovered ==
  \A t \in Turns :
    turns[t].modelFailed
    => /\ turns[t].phase \in {"Dispatching", "Done"}
       /\ turns[t].aiResponse = ApologyText
       /\ turns[t].toolCalls = <<>>
       /\ turns[t].results = <<>>
       /\ turns[t].phase = "Done"
          => /\ turns[t].response = ApologyText
             /\ Len(conversationHistory) >= 2 * t
             /\ conversationHistory[2 * t - 1] =
                  AgentMessage("user", turns[t].userMessage)
             /\ conversationHistory[2 * t] = AgentMessage("assistant", ApologyText)

\* C8 witness: a turn whose model call failed is over and the CLI is back
\* at its prompt.
C8_Witness ==
  \E t \in Turns :
    /\ turns[t].modelFailed
    /\ turns[t].phase = "Done"
    /\ cliPc = "prompt"

\* every message stays where it is, the history does not shrink
HistoryGrows ==
  /\ Len(conversationHistory') >= Len(conversationHistory)
  /\ SubSeq(conversationHistory', 1, Len(conversationHistory)) = conversationHistory

\* the window a waiting prompt was built from is the window of the
\* history as it stands
WindowStands ==
  \A t \in Turns :
    turns[t].phase = "AwaitingModel"
    => Tail(turns[t].messages) = sliceLast(conversationHistory, WindowSize)

C10_ClearEmptiesHistory ==
  (cliPc = "prompt" /\ Route(input) = <<"c", "l", "e", "a", "r">>) => conversationHistory = <<>>

\* the history as it stood when turn t built its prompt: the pairs of the
\* turns before it and its own user message
StoredAt(t) == SubSeq(conversationHistory, 1, 2 * t - 1)

Min(a, b) == IF a < b THEN a ELSE b

\* C11: the prompt of a turn is the system message followed by the last
\* min(10, n) of the n messages stored when it was built, oldest first,
\* ending with the user message of the turn; it has at most 11 entries,
\* and the stored history keeps every message.
C11_PromptIsWindow ==
  \A t \in Turns :
    turns[t].phase # "Prompting"
    => LET prompt == turns[t].messages
           n == Len(StoredAt(t))
           m == Min(10, n)
       IN  /\ Len(conversationHistory) >= 2 * t - 1
           /\ Len(prompt) = 1 + m
           /\ Len(prompt) <= 11
           /\ prompt[1].role = "system"
           /\ \A i \in 1..m : prompt[1 + i] = StoredAt(t)[n - m + i]
           /\ prompt[Len(prompt)] = AgentMessage("user", turns[t].userMessage)

\* C11 witness: the seventh turn built its prompt of 11 entries from a
\* history of 13 messages, whose first three messages it leaves out.
C11_Witness ==
  /\ Len(turns) = 7
  /\ turns[7].phase # "Prompting"
  /\ Len(turns[7].messages) = 11
  /\ Len(conversationHistory) >= 13
  /\ turns[7].messages[2] = conversationHistory[4]
  /\ conversationHistory[1].content # conversationHistory[3].content

\* what a caller did to the object it was given is found in the agent
Reached ==
  \/ \E i \in 1..Len(conversationHistory) : conversationHistory[i] = CallerMessage
  \/ \E i \in 1..Len(recentFiles) : recentFiles[i] = CallerName
  \/ \E i \in 1..Len(recentCommands) : recentCommands[i] = CallerName
  \/ cwd.context = CallerName
  \/ \E t \in Turns : \E i \in 1..Len(turns[t].messages) :
       turns[t].messages[i] = CallerMessage

\* C12: nothing a caller does to the object getContext or getMCPContext
\* gave it (a push to its conversationHistory, recentFiles or
\* recentCommands, an assignment to its currentDirectory) is found in the
\* agent's context or in a prompt built afterwards.
C12_SnapshotIsDefensive == ~ Reached

\* no invocation of processMessage is under way
Idle == \A t \in Turns : turns[t].phase = "Done"

\* the number of turns that are over
Completed == Cardinality({ t \in Turns : turns[t].phase = "Done" })

\* C13: each turn stores its user message, a completed turn stores right
\* after it the assistant message with the text it returned, and nothing
\* else is stored; so with no turn under way the history has even length,
\* alternates user and assistant from a user message on, holds no system
\* message and ends with the pair of the last turn.
C13_TwoMessagesPerTurn ==
  /\ Len(conversationHistory) = Len(turns) + Completed
  /\ \A t \in Turns :
       /\ conversationHistory[2 * t - 1] = AgentMessage("user", turns[t].userMessage)
       /\ turns[t].phase = "Done"
          => conversationHistory[2 * t] = AgentMessage("assistant", turns[t].response)
  /\ Idle
     => /\ Len(conversationHistory) % 2 = 0
        /\ \A i \in 1..Len(conversationHistory) :
             conversationHistory[i].role =
               (IF i % 2 = 1 THEN "user" ELSE "assistant")
        /\ turns # <<>>
           => sliceLast(conversationHistory, 2) =
                << AgentMessage("user", turns[Len(turns)].userMessage),
                   AgentMessage("assistant", turns[Len(turns)].response) >>

\* C13 witness: two turns are over, the second with results in its text,
\* and the history holds their four messages.
C13_Witness ==
  /\ Len(turns) = 2
  /\ Idle
  /\ cliPc = "prompt"
  /\ Len(conversationHistory) = 4
  /\ turns[2].results # <<>>
  /\ turns[2].response # turns[2].aiResponse
  /\ conversationHistory[4].content = turns[2].response

\* the step reads a line that is empty or holds white space only
ReadsEmptyLine ==
  /\ linesRead' = linesRead + 1
  /\ trim(input') = <<>>

\* C14: a step that reads an empty or white-space-only line stores no
\* message, starts no turn (so calls no model and dispatches nothing),
\* touches neither files nor subprocesses, and leaves the loop at its
\* prompt.
C14_EmptyInputNoOp ==
  [][ ReadsEmptyLine
      => /\ conversationHistory' = conversationHistory
         /\ turns' = turns
         /\ files' = files
         /\ execLog' = execLog
         /\ cliPc' = "prompt" ]_vars

\* C14 witness: after a turn a line of two spaces was read; the history
\* still holds the two messages of the turn and the loop is at its prompt.
C14_Witness ==
  /\ linesRead = 2
  /\ input = <<" ", " ">>
  /\ cliPc = "prompt"
  /\ Len(turns) = 1
  /\ Len(conversationHistory) = 2

\* the turns whose model text has been handed to parseAndExecuteTools
Parsed == { t \in Turns : turns[t].phase \in {"Dispatching", "Done"} }

\* C15: a text with readFile(a.txt) and later writeFile(b.txt, hi) as its
\* only call expressions, in any of the proses and spellings (quotes,
\* white space) explored, yields exactly two calls in that order: readFile
\* with the arguments <<a.txt>> and writeFile with <<b.txt, hi>>.
C15_TwoCallsExtracted ==
  \A t \in Parsed :
    turns[t].aiResponse \in TwoCallTexts
    => turns[t].calls =
         << [funcName |-> <<"r","e","a","d","F","i","l","e">>,
             args |-> << <<"a",".","t","x","t">> >>],
            [funcName |-> <<"w","r","i","t","e","F","i","l","e">>,
             args |-> << <<"b",".","t","x","t">>, <<"h","i">> >>] >>

\* C15 witness: a turn is over whose text had quotes and white space
\* around the arguments and prose with parentheses around the calls; the
\* file b.txt was written with the content hi.
C15_Witness ==
  \E t \in Turns :
    /\ turns[t].phase = "Done"
    /\ turns[t].aiResponse \in TwoCallTexts
    /\ \E i \in 1..Len(turns[t].aiResponse) : turns[t].aiResponse[i] = "'"
    /\ turns[t].aiResponse[1] = "("
    /\ Len(turns[t].results) = 2
    /\ turns[t].results[2].success
    /\ \E f \in DOMAIN files : files[f] = <<"h","i">>

\* C16: a text with no call expression (a name of the pattern without
\* parentheses, a name the pattern does not have followed by parentheses,
\* the other texts of NoCallTexts, the apology and the text that stands
\* for no content) yields no call: nothing is dispatched and the text
\* returned is the text of the model.
C16_NoCallNothingDispatched ==
  \A t \in Parsed :
    turns[t].aiResponse \in NoCallTexts \cup {ApologyText, NoResponseText}
    => /\ turns[t].toolCalls = <<>>
       /\ turns[t].calls = <<>>
       /\ turns[t].results = <<>>
       /\ turns[t].phase = "Done"
          => /\ turns[t].response = turns[t].aiResponse
             /\ conversationHistory[2 * t].content = turns[t].aiResponse

\* C16 witness: the turn of a text that names a tool inside a longer name
\* is over, with nothing written and nothing run.
C16_Witness ==
  \E t \in Turns :
    /\ turns[t].phase = "Done"
    /\ turns[t].aiResponse = <<"x","r","e","a","d","F","i","l","e","(",
                               "a",".","t","x","t",")">>
    /\ turns[t].response = turns[t].aiResponse
    /\ files = << >>
    /\ execLog = <<>>

\* the failed Result of a file operation on a missing path: its error
\* names the path
NamesMissing(result, filePath) ==
  /\ result.success = FALSE
  /\ result.error # Undefined
  /\ includes(result.error, filePath)

\* the step starts call k of turn t, a readFile or an editFile on a path
\* that does not exist
StartsOnMissing(t, k) ==
  /\ turns[t].phase = "Dispatching"
  /\ k \in 1..Len(turns[t].calls)
  /\ turns[t].status[k] = "waiting"
  /\ turns'[t].status[k] = "inflight"
  /\ turns[t].calls[k].funcName \in
       { <<"r","e","a","d","F","i","l","e">>, <<"e","d","i","t","F","i","l","e">> }
  /\ resolve(cwd.fileTools, Arg(turns[t].calls[k].args, 0)) \notin DOMAIN files

\* the step handles a `read` line on a path that does not exist
ReadsMissing ==
  /\ linesRead' = linesRead + 1
  /\ Route(input') = <<"r","e","a","d">>
  /\ Len(Parts(input')) >= 2
  /\ resolve(cwd.fileTools, Parts(input')[2]) \notin DOMAIN files

\* C17: a readFile or an editFile on a path that does not exist, extracted
\* from the model text or called by the `read` verb, gives a failed Result
\* whose error names the path and leaves the file system as it was; the
\* call is answered by that Result, nothing is thrown.
C17_MissingFileFails ==
  /\ [][ \A t \in Turns : \A k \in 1..Len(turns[t].calls) :
           StartsOnMissing(t, k)
           => /\ NamesMissing(turns'[t].held[k], Arg(turns[t].calls[k].args, 0))
              /\ files' = files ]_vars
  /\ [][ ReadsMissing
         => /\ NamesMissing(verbResult', Parts(input')[2])
            /\ files' = files
            /\ cliPc' = "prompt" ]_vars
  /\ [](\A t \in Turns : \A k \in Answers(t) :
          CallOf(t, k).funcName \in FileCases
          => /\ turns[t].results[k] = turns[t].held[turns[t].origin[k]]
             /\ ~ turns[t].thrown[turns[t].origin[k]].isError)

\* C17 witness: `read missing.txt` failed naming missing.txt, and a turn
\* is over whose editFile(c, hi) and readFile(b) both failed naming their
\* paths; no file exists.
C17_Witness ==
  /\ NamesMissing(verbResult, <<"m","i","s","s","i","n","g",".","t","x","t">>)
  /\ \E t \in Turns :
       /\ turns[t].phase = "Done"
       /\ Len(turns[t].results) = 2
       /\ NamesMissing(turns[t].results[1], <<"c">>)
       /\ CallOf(t, 1).funcName = <<"e","d","i","t","F","i","l","e">>
       /\ NamesMissing(turns[t].results[2], <<"b">>)
  /\ files = << >>

\* message is there, and error is set exactly when success is false
WellFormed(result) ==
  /\ result.message # Undefined
  /\ result.error # Undefined => result.success = FALSE
  /\ result.success = FALSE => result.error # Undefined

\* C18: every Result the dispatch loop collected, and every Result a
\* built-in verb got from a file, process or mailbox operation or from the
\* agent's own tests, has its message, and has its error set exactly when
\* its success is false.
C18_ResultWellFormed ==
  /\ \A t \in Turns : \A k \in Answers(t) : WellFormed(turns[t].results[k])
  /\ \A t \in Turns : \A k \in 1..Len(turns[t].held) :
       turns[t].held[k] # NoResult => WellFormed(turns[t].held[k])
  /\ runResult # NoResult => WellFormed(runResult)
  /\ verbResult # NoResult => WellFormed(verbResult)

\* C18 witness: one turn holds the Result of a blocked command and the
\* Result of a subprocess that closed with a code other than 0 and wrote
\* nothing to stderr; another holds the Result of one that closed with 0.
C18_Witness ==
  /\ \E t \in Turns :
       /\ Len(turns[t].results) = 2
       /\ IsBlocked(turns[t].results[1])
       /\ turns[t].results[2].success = FALSE
       /\ turns[t].results[2].data.type = "object"
       /\ turns[t].results[2].error = <<"Command failed">>
  /\ \E t \in Turns : \E k \in Answers(t) :
       /\ CallOf(t, k).funcName = <<"e", "x", "e", "c", "u", "t", "e", "C", "o", "m", "m", "a", "n", "d">>
       /\ turns[t].results[k].success
       /\ turns[t].results[k].data.type = "object"
       /\ turns[t].results[k].error = Undefined

\* C19: once the subprocess of executeCommandWithTimeout has run for
\* timeoutMs and was ended for it, the promise settles with success =
\* false and the error "Command timed out", whatever the close event
\* brings later.
C19_TimeoutResult ==
  (child.killed /\ child.state = "closed")
  => /\ child.promise.settled
     /\ child.promise.value.success = FALSE
     /\ child.promise.value.error = <<"Command timed out">>

\* the whole trimmed line is a special verb, or its first word is a
\* built-in verb (verbs in any case, words set apart by single blanks)
HandledDirectly(line) ==
  \/ toLowerCase(trim(line)) \in SpecialVerbs
  \/ toLowerCase(split(trim(line), " ")[1]) \in BuiltInVerbs

\* C20: a step that reads a line of a special or built-in verb starts no
\* turn and stores no message; a step that reads any other line that is
\* not empty hands it, as typed, to one new invocation of processMessage,
\* which stores it as its user message; no other step starts a turn.
C20_Routing ==
  /\ [][ (linesRead' = linesRead + 1 /\ trim(input') # <<>>)
         => IF HandledDirectly(input')
            THEN /\ turns' = turns
                 /\ conversationHistory' = conversationHistory
            ELSE /\ turns' = Append(turns, Frame(input'))
                 /\ conversationHistory' =
                      Append(conversationHistory, AgentMessage("user", input')) ]_vars
  /\ [][ Len(turns') # Len(turns) => linesRead' = linesRead + 1 ]_vars

\* C20 witness: the line " please run ls " went to processMessage with
\* its blanks, and the line `read missing.txt` after it was handled by
\* its verb: one turn, two messages.
C20_Witness ==
  /\ linesRead = 2
  /\ Len(turns) = 1
  /\ turns[1].userMessage[1] = " "
  /\ turns[1].phase = "Done"
  /\ Route(input) = <<"r","e","a","d">>
  /\ verbResult # NoResult
  /\ Len(conversationHistory) = 2

\* the text between the parentheses of a matched call expression
ArgumentText(toolCall) ==
  LET open == CHOOSE i \in 1..Len(toolCall) :
                /\ toolCall[i] = "("
                /\ \A j \in 1..(i - 1) : toolCall[j] # "("
  IN  SubSeq(toolCall, open + 1, Len(toolCall) - 1)

\* a token without the pair of quote characters that encloses it
Unquoted(token) ==
  IF /\ Len(token) >= 2
     /\ token[1] \in {"'", "\""}
     /\ token[Len(token)] = token[1]
  THEN SubSeq(token, 2, Len(token) - 1)
  ELSE token

\* C21: each argument of an extracted call is its comma-separated token,
\* trimmed, without its enclosing quotes and with every other character
\* kept, a quote character inside the token included.
C21_OnlyEnclosingQuotesStripped ==
  \A t \in Parsed : \A k \in 1..Len(turns[t].toolCalls) :
    LET tokens == split(ArgumentText(turns[t].toolCalls[k]), ",")
    IN  turns[t].calls[k].args =
          [i \in 1..Len(tokens) |-> Unquoted(trim(tokens[i]))]

\* the positions of the mailbox log holding the event e
LogPositions(e) == { i \in 1..Len(mailLog) : mailLog[i] = e }

\* the Result of a failed handshake came out of this step
AuthenticationFailureReturned ==
  LET failure == <<"Failed to authenticate with Gmail API">>
  IN  \/ /\ verbResult' # verbResult
         /\ verbResult'.success = FALSE
         /\ verbResult'.message = failure
      \/ \E t \in Turns :
           /\ Len(turns'[t].results) = Len(turns[t].results) + 1
           /\ turns'[t].results[Len(turns'[t].results)].success = FALSE
           /\ turns'[t].results[Len(turns'[t].results)].message = failure

\* C22: every remote request comes after a successful handshake; there is
\* at most one successful handshake and nothing but requests after it, with
\* isAuthenticated set from then on; an operation whose handshake fails
\* returns the Result of that failure, issues no request and leaves
\* isAuthenticated false, and the operation after it tries the handshake
\* again.
C22_AuthenticationOneTime ==
  /\ [](/\ \A i \in LogPositions("request") :
             \E j \in LogPositions("handshake") : j < i
        /\ Cardinality(LogPositions("handshake")) <= 1
        /\ \A j \in LogPositions("handshake") :
             \A i \in (j + 1)..Len(mailLog) : mailLog[i] = "request"
        /\ isAuthenticated <=> LogPositions("handshake") # {})
  /\ [][ isAuthenticated => isAuthenticated' ]_vars
  /\ [][ (mailLog' # mailLog /\ mailLog'[Len(mailLog')] = "handshakeFailed")
         => /\ mailLog' = Append(mailLog, "handshakeFailed")
            /\ ~isAuthenticated'
            /\ AuthenticationFailureReturned ]_vars
  /\ [][ (mailLog' # mailLog /\ ~isAuthenticated)
         => mailLog'[Len(mailLog) + 1] \in {"handshake", "handshakeFailed"} ]_vars

\* C22 witness: the handshake of the first operation failed, the second
\* operation performed it again and issued its request, and a third issued
\* its request with no handshake.
C22_Witness ==
  /\ mailLog = <<"handshakeFailed", "handshake", "request", "request">>
  /\ isAuthenticated

\* at most the first 200 characters, with "..." after them when there are more
Preview(data) ==
  IF Len(data) > 200 THEN SubSeq(data, 1, 200) \o <<"...">> ELSE data

\* the numbered entries of the Results from the k-th on
RECURSIVE NumberedEntries(_, _)
NumberedEntries(results, k) ==
  IF k > Len(results) THEN <<>>
  ELSE LET r == results[k]
       IN  <<ToString(k), ". ">> \o r.message \o <<"\n">>
           \o (IF r.error # Undefined
               THEN <<"   Error: ">> \o r.error \o <<"\n">> ELSE <<>>)
           \o (IF r.data.type = "string"
               THEN <<"   Data: ">> \o Preview(r.data.value) \o <<"\n">> ELSE <<>>)
           \o NumberedEntries(results, k + 1)

\* C23: the text a turn returns is the text of the model and, when a call
\* was dispatched, the block of one numbered entry per Result, each with
\* the message, the error when there is one, and the preview of the data
\* whenever the data are a text: its first 200 characters, followed by
\* "..." exactly when there are more.
C23_ComposedText ==
  \A t \in Turns :
    turns[t].phase = "Done"
    => turns[t].response =
         turns[t].aiResponse
         \o (IF Len(turns[t].results) > 0
             THEN <<"\n\nTool Results:\n">> \o NumberedEntries(turns[t].results, 1)
             ELSE <<>>)

\* how many messages of a role the history holds
Stored(role) ==
  Cardinality({ i \in 1..Len(conversationHistory) :
                  conversationHistory[i].role = role })

\* C24: a turn goes from start to model call to dispatch to its end and
\* takes no other step between them; its user message is stored before the
\* model is called; while the model has not answered no call is extracted,
\* started or answered; and the assistant message is stored in the step
\* that ends the turn, when every extracted call has its Result.
C24_TurnOrder ==
  /\ [][ \A t \in Turns :
           turns'[t].phase # turns[t].phase
           => << turns[t].phase, turns'[t].phase >> \in
                { << "Prompting", "AwaitingModel" >>,
                  << "AwaitingModel", "Dispatching" >>,
                  << "Dispatching", "Done" >> } ]_vars
  /\ [](\A t \in Turns :
          /\ Stored("user") >= t
          /\ conversationHistory[2 * t - 1] = AgentMessage("user", turns[t].userMessage)
          /\ turns[t].phase \in {"Prompting", "AwaitingModel"}
             => /\ turns[t].toolCalls = <<>>
                /\ turns[t].status = <<>>
                /\ turns[t].results = <<>>
          /\ turns[t].phase # "Done" => Stored("assistant") < t)
  /\ [][ Stored("assistant")' # Stored("assistant")
         => \E t \in Turns :
              /\ turns[t].phase = "Dispatching"
              /\ turns'[t].phase = "Done"
              /\ Stored("assistant")' = t
              /\ Len(turns[t].results) = Len(turns[t].toolCalls)
              /\ \A k \in 1..Len(turns[t].toolCalls) :
                   /\ turns[t].status[k] = "collected"
                   /\ \E j \in Answers(t) : turns[t].origin[j] = k ]_vars
  /\ [][ execLog' # execLog \/ files' # files \/ mailLog' # mailLog
         => \/ cliPc # "awaitTurn"
            \/ \E t \in Turns : turns[t].phase = "Dispatching" ]_vars

\* C24 witness: a turn of three calls is over, with its three Results and
\* its two messages stored.
C24_Witness ==
  /\ Len(turns) = 1
  /\ turns[1].phase = "Done"
  /\ Len(turns[1].toolCalls) = 3
  /\ Len(turns[1].results) = 3
  /\ Len(conversationHistory) = 2

\* C25: when the model and the operations answer at some time, a turn
\* that has started comes to its end, and every ended turn has its
\* assistant message stored, whatever failed on the way.
C25_TurnsEnd ==
  /\ (~Idle) ~> Idle
  /\ [](Idle => Stored("assistant") = Len(turns))

\* C25 witness: a turn is over in which the call to the model failed, and
\* one in which exec threw; both have their assistant message.
C25_Witness ==
  /\ Idle
  /\ Len(turns) = 2
  /\ Stored("assistant") = 2
  /\ \E t \in Turns : turns[t].modelFailed
  /\ \E t \in Turns : \E k \in 1..Len(turns[t].thrown) :
       turns[t].thrown[k] # NothingThrown

\* the forms of the preamble with no argument, as the model writes them
AdvertisedBare == { <<"l", "i", "s", "t", "E", "m", "a", "i", "l", "s", "(", ")">>, <<"g", "e", "t", "U", "n", "r", "e", "a", "d", "E", "m", "a", "i", "l", "s", "(", ")">> }

\* C26: a text of the model that is a call form of the preamble, the ones
\* with an empty argument list included, yields one call and, once the
\* turn is over, one Result for it.
C26_AdvertisedFormsDispatched ==
  \A t \in Parsed :
    turns[t].aiResponse \in AdvertisedBare
    => /\ Len(turns[t].toolCalls) = 1
       /\ turns[t].phase = "Done" => Len(turns[t].results) = 1

\* C27: the three copies of the current directory, the one of the
\* Context, the one of the file operations and the one of the process
\* operations, hold the same value at all times.
C27_DirectoriesAgree ==
  /\ cwd.context = cwd.fileTools
  /\ cwd.fileTools = cwd.commandTools

\* the Result of a command whose subprocess came to its close event
RanToClose(r) ==
  /\ r.data.type = "object"
  /\ "exitCode" \in DOMAIN r.data.value

\* success exactly with the recorded exit code 0, the output kept
ExitCodeTellsSuccess(r) ==
  RanToClose(r) => (r.success <=> r.data.value.exitCode = 0)

\* C28: the Result of a command that ran to its close event has success =
\* true exactly when its data.exitCode is 0; no failed Result carries the
\* exit code 0, a subprocess ended by a signal included.
C28_SuccessIffExitZero ==
  /\ ExitCodeTellsSuccess(runResult)
  /\ \A t \in Turns : \A k \in Answers(t) : ExitCodeTellsSuccess(turns[t].results[k])

\* C29: recentFiles and recentCommands stay empty whatever the turns, the
\* dispatched calls and the verbs of the CLI do; a step of a turn leaves
\* the three directories alone, and the only step that changes them is the
\* cd verb with its argument, through setCurrentDirectory.
C29_ContextFrame ==
  /\ [](recentFiles = <<>> /\ recentCommands = <<>>)
  /\ [][ (turns' # turns \/ cliPc = "awaitTurn") => cwd' = cwd ]_vars
  /\ [][ cwd' # cwd
         => /\ linesRead' = linesRead + 1
            /\ Route(input') = <<"c", "d">>
            /\ cwd' = setCurrentDirectory(Parts(input')[2]) ]_vars

\* C29 witness: after a cd verb and a turn that edited and read a file,
\* both lists are empty and the directory is the one of the cd verb.
C29_Witness ==
  /\ recentFiles = <<>>
  /\ recentCommands = <<>>
  /\ cwd.context = <<"s", "u", "b">>
  /\ \E t \in Turns :
       /\ turns[t].phase = "Done"
       /\ \E k \in Answers(t) : CallOf(t, k).funcName = <<"e", "d", "i", "t", "F", "i", "l", "e">>
       /\ \E k \in Answers(t) : CallOf(t, k).funcName = <<"r", "e", "a", "d", "F", "i", "l", "e">>

\* C30: after the read verb with a file, the contents are shown exactly
\* when the Result of readFile has success = true, and the failure line is
\* printed only when it has success = false, a file of no character
\* included.
C30_ReadVerbReportsResult ==
  ( /\ Route(input) = <<"r", "e", "a", "d">>
    /\ Len(Parts(input)) >= 2
    /\ verbResult # NoResult )
  => (ShowsContents(verbResult) <=> verbResult.success)

====
